---- MODULE Spec2Model ----
(***************************************************************************)
(* A model of bfg9000's make backend syntax layer                          *)
(* (src/bfg9000/backends/make/syntax.py): the escaping engine Writer, the  *)
(* entities Variable / Function / Pattern, and the build-file assembler    *)
(* Makefile.                                                               *)
(*                                                                         *)
(* Text is a sequence of one-character strings, so that escaping, quoting  *)
(* and parsing work on characters.  Fixed fragments that no escaping ever  *)
(* looks into (the banner, " := ", "include ") are single longer tokens.   *)
(***************************************************************************)
EXTENDS Integers, Sequences, FiniteSets, TLC

VARIABLES
    family,             \* platform_info().family of the host
    _var_table,         \* Makefile._var_table: the set of declared Variables
    _global_variables,  \* Makefile._global_variables: Section -> list
    _target_variables,  \* Makefile._target_variables
    _defines,           \* Makefile._defines
    _rules,             \* Makefile._rules
    _targets,           \* Makefile._targets: set of rendered target names
    _includes,          \* Makefile._includes
    _gnu,               \* Makefile._gnu
    stream,             \* the stream handed to the last Makefile.write()
    last,               \* the last call: operation, arguments, outcome
    history,            \* the contributions, in the order they were made
    arg,                \* input of the pure function under check
    res,                \* its result
    find_dirs,          \* build_inputs['find_dirs']: the directories scanned
    depfile             \* the text of .bfg_find_deps, None while not written

vars == <<family, _var_table, _global_variables, _target_variables, _defines,
          _rules, _targets, _includes, _gnu, stream, last, history, arg, res,
          find_dirs, depfile>>

mfvars == <<_var_table, _global_variables, _target_variables, _defines,
            _rules, _targets, _includes, _gnu, stream, last, history,
            find_dirs, depfile>>

----------------------------------------------------------------------------
(* Bounds of the model *)

\* longest text drawn as an input of escape_str and of Pattern
MaxLen == 3
\* most contributions made to one Makefile
MaxOps == 2
\* most bits of a concatenation drawn as an input of Writer.write
MaxBits == 2

----------------------------------------------------------------------------
(* Text helpers *)

BS == "\\"
NL == "\n"
TAB == "\t"

RECURSIVE Concat(_)
Concat(ss) == IF ss = <<>> THEN <<>> ELSE Head(ss) \o Concat(Tail(ss))

RECURSIVE Repeat(_, _)
Repeat(c, n) == IF n = 0 THEN <<>> ELSE <<c>> \o Repeat(c, n - 1)

RECURSIVE Count(_, _)
Count(s, c) ==
    IF s = <<>> THEN 0
    ELSE (IF Head(s) = c THEN 1 ELSE 0) + Count(Tail(s), c)

Contains(s, c) == \E i \in 1..Len(s) : s[i] = c

\* all texts over alphabet A of length at most n
RECURSIVE TextsOfLen(_, _)
TextsOfLen(A, n) ==
    IF n = 0 THEN {<<>>}
    ELSE {<<c>> \o t : c \in A, t \in TextsOfLen(A, n - 1)}

Texts(A, n) == UNION {TextsOfLen(A, k) : k \in 0..n}

\* length of the run of backslashes of s that starts at position i
RECURSIVE RunFrom(_, _)
RunFrom(s, i) ==
    IF i <= Len(s) /\ s[i] = BS THEN 1 + RunFrom(s, i + 1) ELSE 0

\* length of the run of backslashes of s that ends right before position i
RECURSIVE RunBefore(_, _)
RunBefore(s, i) ==
    IF i > 1 /\ s[i - 1] = BS THEN 1 + RunBefore(s, i - 1) ELSE 0

----------------------------------------------------------------------------
(* Syntax and Section enums *)

Syntax == {"target", "dependency", "function", "shell", "clean"}
MutSectionOrder == <<"command", "path", "flags", "other">>

Section == <<"path", "command", "flags", "other">>
SectionSet == {"path", "command", "flags", "other"}

----------------------------------------------------------------------------
(* Writer.escape_str *)

WhiteSpace == {" ", TAB}

\* Writer.__extra_escapes
extra_escapes(fam) == IF fam = "windows" THEN {} ELSE {":"}

\* Writer.__escape_chars: the character class shared by both expressions
escape_chars(fam) ==
    {"?", "*", "[", "]", "#", "%"} \cup WhiteSpace \cup extra_escapes(fam)

\* the class of Writer.__target_ex
target_ex(fam) == escape_chars(fam)

\* the class of Writer.__dep_ex
MutDepExNoPipe(fam) == escape_chars(fam)

dep_ex(fam) == {"|"} \cup escape_chars(fam)

\* string.replace('$', '$$')
RECURSIVE DoubleDollar(_)
DoubleDollar(s) ==
    IF s = <<>> THEN <<>>
    ELSE (IF Head(s) = "$" THEN <<"$", "$">> ELSE <<Head(s)>>)
         \o DoubleDollar(Tail(s))

MutCommaEscapeNone(s) == s

\* result.replace(',', '$,')
RECURSIVE CommaEscape(_)
CommaEscape(s) ==
    IF s = <<>> THEN <<>>
    ELSE (IF Head(s) = "," THEN <<"$", ",">> ELSE <<Head(s)>>)
         \o CommaEscape(Tail(s))

\* repl: group(1) * 2 + '\\' + group(2), for a run of k backslashes and c
repl(k, c) == Repeat(BS, 2 * k) \o <<BS, c>>

\* re.sub of (\\*)(^~|[class]) over s from position i on: the leftmost match
\* at i is the whole run of backslashes at i followed by a character of the
\* class, or "~" as the very first character of the text
RECURSIVE ExSub(_, _, _)
ExSub(s, i, class) ==
    IF i > Len(s) THEN <<>>
    ELSE LET k == RunFrom(s, i)
             j == i + k
             hit == /\ j <= Len(s)
                    /\ \/ s[j] \in class
                       \/ (j = 1 /\ s[j] = "~")
         IN  IF hit THEN repl(k, s[j]) \o ExSub(s, j + 1, class)
             ELSE <<s[i]>> \o ExSub(s, i + 1, class)

\* Writer.escape_str: [err, out]
MutEscapeStrNoDollar(string, syntax, fam) ==
    IF Contains(string, NL) THEN [err |-> "ValueError", out |-> <<>>]
    ELSE [err |-> "none",
          out |-> CASE syntax = "target" -> ExSub(string, 1, target_ex(fam))
                    [] syntax = "dependency" -> ExSub(string, 1, dep_ex(fam))
                    [] syntax = "function" -> CommaEscape(string)
                    [] OTHER -> string]

MutEscapeStrNoNewlineCheck(string, syntax, fam) ==
    [err |-> "none",
     out |-> CASE syntax = "target" ->
                    ExSub(DoubleDollar(string), 1, target_ex(fam))
               [] syntax = "dependency" ->
                    ExSub(DoubleDollar(string), 1, dep_ex(fam))
               [] syntax = "function" -> CommaEscape(DoubleDollar(string))
               [] OTHER -> DoubleDollar(string)]

escape_str(string, syntax, fam) ==
    IF Contains(string, NL) THEN [err |-> "ValueError", out |-> <<>>]
    ELSE LET result == DoubleDollar(string)
         IN  CASE syntax = "target" ->
                    [err |-> "none", out |-> ExSub(result, 1, target_ex(fam))]
               [] syntax = "dependency" ->
                    [err |-> "none", out |-> ExSub(result, 1, dep_ex(fam))]
               [] syntax = "function" ->
                    [err |-> "none", out |-> CommaEscape(result)]
               [] syntax \in {"shell", "clean"} ->
                    [err |-> "none", out |-> result]
               [] OTHER -> [err |-> "ValueError", out |-> <<>>]

----------------------------------------------------------------------------
(* The posix shell helpers Writer relies on (bfg9000.shell.posix) *)

\* characters outside [\w@%+=:,./-]: the ones that force shell quoting
ShellBadChars ==
    {" ", TAB, NL, "$", "'", BS, "#", "?", "*", "[", "]", "|", "~", "(", ")"}

\* pshell.wrap_quotes
wrap_quotes(s) == <<"'">> \o s \o <<"'">>

\* pshell.inner_quote_info: [s, escaped]
RECURSIVE InnerQuote(_)
InnerQuote(s) ==
    IF s = <<>> THEN <<>>
    ELSE (IF Head(s) = "'" THEN <<"'", BS, "'", "'">> ELSE <<Head(s)>>)
         \o InnerQuote(Tail(s))

inner_quote_info(s) ==
    [s |-> InnerQuote(s),
     escaped |-> \E i \in 1..Len(s) : s[i] \in ShellBadChars]

\* pshell.quote_info: [s, escaped]
quote_info(s) ==
    IF s = <<>> THEN [s |-> <<"'", "'">>, escaped |-> TRUE]
    ELSE IF \E i \in 1..Len(s) : s[i] \in ShellBadChars
         THEN [s |-> wrap_quotes(InnerQuote(s)), escaped |-> TRUE]
         ELSE [s |-> s, escaped |-> FALSE]

\* the shell_quote argument of Writer.write: a function, or None
shell_quote_call(shell_quote, s) ==
    IF shell_quote = "quote_info" THEN quote_info(s) ELSE inner_quote_info(s)

----------------------------------------------------------------------------
(* Values the Writer renders *)

Str(s) == [k |-> "str", s |-> s]
Literal(s) == [k |-> "literal", s |-> s]
ShellLiteral(s) == [k |-> "shell_literal", s |-> s]
Jbos(bits) == [k |-> "jbos", bits |-> bits]
\* syntax_string(data, syntax, quoted); syntax "None" when unset
syntax_string(data, syntax, quoted) ==
    [k |-> "syntax_string", data |-> data, syntax |-> syntax, quoted |-> quoted]
\* a path.BasePath: a root and the suffix below it
PathValue(root, suffix) == [k |-> "path", root |-> root, suffix |-> suffix]
\* a value of a type the Writer does not know
Unsupported == [k |-> "object"]
\* a python list of values (a multi-valued argument, an argument list)
List(items) == [k |-> "list", items |-> items]
\* a tools.common.Command, as it stands inside an argument list
CommandRef(command_var, command) ==
    [k |-> "Command", command_var |-> command_var, command |-> command]
\* Silent(data)
Silent(data) == [k |-> "Silent", data |-> data]

\* iterutils.iterate: the items of a list, or the one thing itself
iterate(thing) == IF thing.k = "list" THEN thing.items ELSE <<thing>>

\* python's None, where a value may be absent
None == [k |-> "None"]

\* iterutils.tween: prefix, the items separated by delim, suffix; nothing at
\* all for no items
RECURSIVE TweenRest(_, _)
TweenRest(things, delim) ==
    IF things = <<>> THEN <<>>
    ELSE <<delim, Head(things)>> \o TweenRest(Tail(things), delim)

tween(things, delim, prefix, suffix) ==
    IF things = <<>> THEN <<>>
    ELSE (IF prefix.k = "None" THEN <<>> ELSE <<prefix>>)
         \o <<Head(things)>> \o TweenRest(Tail(things), delim)
         \o (IF suffix.k = "None" THEN <<>> ELSE <<suffix>>)

----------------------------------------------------------------------------
(* Entities: Variable, Function, Pattern *)

\* re.sub(r'[\s:#=]', '_', name)
RECURSIVE Sanitize(_)
Sanitize(name) ==
    IF name = <<>> THEN <<>>
    ELSE (IF Head(name) \in WhiteSpace \cup {NL, ":", "#", "="}
          THEN <<"_">> ELSE <<Head(name)>>) \o Sanitize(Tail(name))

\* Variable.__init__
Variable(name, quoted) ==
    [k |-> "Variable", name |-> Sanitize(name), quoted |-> quoted]

MutVariableUseAlwaysParens(v) ==
    LET fmt == <<"$", "(">> \o v.name \o <<")">>
    IN  Literal(IF v.quoted THEN wrap_quotes(fmt) ELSE fmt)

\* Variable.use
Variable_use(v) ==
    LET fmt == IF Len(v.name) = 1 THEN <<"$">> \o v.name
               ELSE <<"$", "(">> \o v.name \o <<")">>
    IN  Literal(IF v.quoted THEN wrap_quotes(fmt) ELSE fmt)

\* var(): a Variable stays as it is, a name (a Str) becomes one
var(v, quoted) ==
    IF v.k = "Variable" THEN v ELSE Variable(v.s, quoted)

\* Function.__init__
Function(name, args, quoted) ==
    [k |-> "Function", name |-> name, args |-> args, quoted |-> quoted]

\* Call(func, *args)
Call(func, args) ==
    Function(<<"c", "a", "l", "l">>, <<Str(var(func, FALSE).name)>> \o args, FALSE)

MutFindallAnyPercent(path, i) == Count(path, "%")

\* the count of Pattern.__init__: the matches re.findall finds for
\* ((?<=[^\\])|^)(\\\\)*% scanning from position i; a match starts at the
\* beginning of the text or after a character that is no backslash, takes
\* pairs of backslashes and then needs "%"
RECURSIVE FindallPercent(_, _)
FindallPercent(path, i) ==
    IF i > Len(path) THEN 0
    ELSE LET k == RunFrom(path, i)
             anchored == i = 1 \/ path[i - 1] # BS
             hit == /\ anchored
                    /\ k % 2 = 0
                    /\ i + k <= Len(path)
                    /\ path[i + k] = "%"
         IN  IF hit THEN 1 + FindallPercent(path, i + k + 1)
             ELSE FindallPercent(path, i + 1)

\* re.split(r'%', path)
RECURSIVE SplitPercent(_, _)
SplitPercent(path, acc) ==
    IF path = <<>> THEN <<acc>>
    ELSE IF Head(path) = "%" THEN <<acc>> \o SplitPercent(Tail(path), <<>>)
         ELSE SplitPercent(Tail(path), Append(acc, Head(path)))

\* Pattern.__init__: the pattern, or the ValueError it raises
Pattern(path) ==
    IF FindallPercent(path, 1) # 1 THEN [k |-> "ValueError"]
    ELSE [k |-> "Pattern", path |-> path]

\* safe_str.join(bits, delim)
safe_str_join(bits, delim) ==
    Jbos(tween([i \in 1..Len(bits) |-> Str(bits[i])], delim, None, None))

\* Pattern.use
Pattern_use(p) == safe_str_join(SplitPercent(p.path, <<>>), Literal(<<"%">>))

----------------------------------------------------------------------------
(* Paths: path_vars and BasePath.realize *)

\* path_vars: the Variable that stands for a root, "None" for the build
\* directory
path_vars(root) ==
    IF root = "srcdir"
    THEN Variable(<<"s", "r", "c", "d", "i", "r">>, FALSE)
    ELSE "None"

\* BasePath.realize(path_vars, executable): the root's variable, a separator
\* and the suffix; the bare suffix for a path below the build directory
realize(p) ==
    IF p.root # "srcdir" THEN Str(IF p.suffix = <<>> THEN <<".">> ELSE p.suffix)
    ELSE IF p.suffix = <<>> THEN path_vars(p.root)
         ELSE Jbos(<<path_vars(p.root), Str(<<"/">> \o p.suffix)>>)

----------------------------------------------------------------------------
(* Writer.write *)

\* Function.use, given its arguments already turned into safe strings
Function_use(f, bits) ==
    syntax_string(
        Jbos(<<Literal(<<"$", "(">> \o f.name)>> \o bits \o <<Literal(<<")">>)>>),
        "function", f.quoted)

\* the argument stream of Function.use: tween(args, ',', prefix ' '), each
\* item's own values tweened with ' '
RECURSIVE FunctionBits(_)
FunctionBits(items) ==
    IF items = <<>> THEN <<>>
    ELSE tween(iterate(Head(items)), Literal(<<" ">>), None, None)
         \o FunctionBits(Tail(items))

\* safe_str.safe_str: an Entity is replaced by what its use() returns
safe_str(thing) ==
    CASE thing.k = "Variable" -> Variable_use(thing)
      [] thing.k = "Pattern" -> Pattern_use(thing)
      [] thing.k = "Function" ->
            Function_use(thing,
                FunctionBits(tween(thing.args, Literal(<<",">>),
                                   Literal(<<" ">>), None)))
      [] OTHER -> thing

MutShellyShellOnly(syntax) == syntax = "shell"

Shelly(syntax) == syntax \in {"function", "shell"}

\* Writer.write(thing, syntax, shell_quote): what reached the stream, the
\* error raised if any, and the returned flag
RECURSIVE write(_, _, _, _)

write_value(thing, syntax, shell_quote, fam) ==
    LET shelly == Shelly(syntax)
    IN  CASE thing.k = "literal" ->
               [out |-> thing.s, err |-> "none", escaped |-> TRUE]
          [] thing.k = "shell_literal" ->
               LET e == escape_str(thing.s, syntax, fam)
               IN  [out |-> e.out, err |-> e.err, escaped |-> TRUE]
          [] thing.k = "str" ->
               LET q == IF shelly /\ shell_quote # "None"
                        THEN shell_quote_call(shell_quote, thing.s)
                        ELSE [s |-> thing.s, escaped |-> FALSE]
                   e == escape_str(q.s, syntax, fam)
               IN  [out |-> e.out, err |-> e.err, escaped |-> q.escaped]
          [] thing.k = "syntax_string" ->
               LET inner == write(thing.data,
                                  IF thing.syntax = "None" THEN syntax
                                  ELSE thing.syntax,
                                  IF thing.quoted THEN "None" ELSE shell_quote,
                                  fam)
               IN  IF inner.err # "none"
                   THEN [out |-> <<>>, err |-> inner.err, escaped |-> FALSE]
                   ELSE [out |-> IF thing.quoted THEN wrap_quotes(inner.out)
                                 ELSE inner.out,
                         err |-> "none", escaped |-> inner.escaped]
          [] thing.k = "jbos" ->
               \* for i in thing.bits: escaped |= self.write(i, ...)
               IF thing.bits = <<>>
               THEN [out |-> <<>>, err |-> "none", escaped |-> FALSE]
               ELSE LET first == write(Head(thing.bits), syntax, shell_quote, fam)
                        rest == write(Jbos(Tail(thing.bits)), syntax,
                                      shell_quote, fam)
                    IN  IF first.err # "none" THEN first
                        ELSE [out |-> first.out \o rest.out, err |-> rest.err,
                              escaped |-> first.escaped \/ rest.escaped]
          [] thing.k = "path" ->
               LET inner == write(realize(thing), syntax, "inner_quote_info", fam)
               IN  IF inner.err # "none"
                   THEN [out |-> <<>>, err |-> inner.err, escaped |-> FALSE]
                   ELSE [out |-> IF shelly /\ inner.escaped
                                 THEN wrap_quotes(inner.out) ELSE inner.out,
                         err |-> "none", escaped |-> inner.escaped]
          [] OTHER -> [out |-> <<>>, err |-> "TypeError", escaped |-> FALSE]

\* thing = safe_str.safe_str(thing), then the branch of its type
write(thing, syntax, shell_quote, fam) ==
    write_value(safe_str(thing), syntax, shell_quote, fam)

\* Writer.write_each(things, syntax, delim, prefix, suffix): one write after
\* the other on the same stream
write_each(things, syntax, delim, prefix, suffix, fam) ==
    write(Jbos(tween(things, delim, prefix, suffix)), syntax, "quote_info", fam)

\* Writer.write_shell(thing, syntax)
write_shell(thing, syntax, fam) ==
    LET silent == thing.k = "Silent"
        w == write_each(iterate(IF silent THEN thing.data ELSE thing), syntax,
                        Literal(<<" ">>), None, None, fam)
    IN  [w EXCEPT !.out = (IF silent THEN <<"@">> ELSE <<>>) \o w.out]

----------------------------------------------------------------------------
(* Makefile: the assembler.  An operation takes the Makefile m (a record   *)
(* of its fields, with the contributions made so far in m.history) and     *)
(* returns the Makefile it leaves, the error it raised and what it returns *)

\* Makefile.__init__
Makefile(gnu) ==
    [_var_table |-> {},
     _global_variables |-> [sec \in SectionSet |-> <<>>],
     _target_variables |-> <<>>,
     _defines |-> <<>>,
     _rules |-> <<>>,
     _targets |-> {},
     _includes |-> <<>>,
     _gnu |-> gnu,
     history |-> <<>>]

\* Makefile.has_variable
MutEqAlsoQuoted(a, b) == a = b

\* NamedEntity.__eq__: the same type and the same name
NamedEntity_eq(a, b) == a.k = b.k /\ a.name = b.name

\* x in s and s.add(x) of a python set of entities, which hash by their name
\* and compare with __eq__: an element equal to one of the set is not added
set_contains(s, x) == \E y \in s : NamedEntity_eq(y, x)

set_add(s, x) == IF set_contains(s, x) THEN s ELSE s \cup {x}

MutHasVariableGlobalsOnly(m, name) ==
    \E sec \in SectionSet : \E i \in 1..Len(m._global_variables[sec]) :
        m._global_variables[sec][i][1].name = var(name, FALSE).name

has_variable(m, name) == set_contains(m._var_table, var(name, FALSE))

\* Makefile._unique_var: [m, err, name, exists]
MutUniqueVarOverwrite(m, name, exist_ok) ==
    LET n == var(name, FALSE)
    IN  [m |-> [m EXCEPT !._var_table = set_add(@, n)], err |-> "none",
         name |-> n, exists |-> FALSE]

_unique_var(m, name, exist_ok) ==
    LET n == var(name, FALSE)
        exists == has_variable(m, n)
    IN  IF exists /\ ~exist_ok
        THEN [m |-> m, err |-> "ValueError", name |-> n, exists |-> exists]
        ELSE [m |-> [m EXCEPT !._var_table = set_add(@, n)], err |-> "none",
              name |-> n, exists |-> exists]

\* str.upper(), on the letters the tools' names use
Upper(c) ==
    CASE c = "c" -> "C"
      [] c = "a" -> "A"
      [] c = "r" -> "R"
      [] c = "b" -> "B"
      [] c = "f" -> "F"
      [] c = "g" -> "G"
      [] OTHER -> c

upper(s) == [i \in 1..Len(s) |-> Upper(s[i])]

RECURSIVE variable(_, _, _, _, _)
RECURSIVE convert_items(_, _, _)

MutCmdVarNotExistOk(m, cmd) ==
    variable(m, Str(upper(cmd.command_var)), cmd.command, "command", FALSE)

MutCmdVarOtherSection(m, cmd) ==
    variable(m, Str(upper(cmd.command_var)), cmd.command, "other", FALSE)

\* Makefile.cmd_var
cmd_var(m, cmd) ==
    variable(m, Str(upper(cmd.command_var)), cmd.command, "command", TRUE)

\* Command.convert_args(args, conv), item by item: a Command is replaced by
\* what conv (cmd_var) returns for it
convert_items(m, items, done) ==
    IF items = <<>> THEN [m |-> m, value |-> List(done)]
    ELSE IF Head(items).k = "Command"
         THEN LET c == cmd_var(m, Head(items))
              IN  convert_items(c.m, Tail(items), Append(done, c.ret))
         ELSE convert_items(m, Tail(items), Append(done, Head(items)))

\* the inner convert of Makefile._convert_args
convert(m, args) ==
    IF args.k = "list" THEN convert_items(m, args.items, <<>>)
    ELSE [m |-> m, value |-> args]

\* Makefile._convert_args: [m, value]
_convert_args(m, args) ==
    IF args.k = "Silent"
    THEN LET c == convert(m, args.data) IN [m |-> c.m, value |-> Silent(c.value)]
    ELSE convert(m, args)

\* the append of Makefile.variable
MutAppendGlobalFirst(m, section, name, value) ==
    [m EXCEPT !._global_variables[section] = <<<<name, value>>>> \o @,
              !.history = Append(@, [op |-> "variable", section |-> section,
                                     name |-> name, value |-> value])]

append_global(m, section, name, value) ==
    [m EXCEPT !._global_variables[section] = Append(@, <<name, value>>),
              !.history = Append(@, [op |-> "variable", section |-> section,
                                     name |-> name, value |-> value])]

\* Makefile.variable: [m, err, ret]
variable(m, name, value, section, exist_ok) ==
    LET u == _unique_var(m, name, exist_ok)
    IN  IF u.err # "none" THEN [m |-> u.m, err |-> u.err, ret |-> None]
        ELSE IF u.exists THEN [m |-> u.m, err |-> "none", ret |-> u.name]
        ELSE LET c == _convert_args(u.m, value)
             IN  [m |-> append_global(c.m, section, u.name, c.value),
                  err |-> "none", ret |-> u.name]

\* Makefile.target_variable: [m, err, ret]
target_variable(m, name, value, exist_ok) ==
    LET u == _unique_var(m, name, exist_ok)
    IN  IF u.err # "none" THEN [m |-> u.m, err |-> u.err, ret |-> None]
        ELSE IF u.exists THEN [m |-> u.m, err |-> "none", ret |-> u.name]
        ELSE LET c == _convert_args(u.m, value)
             IN  [m |-> [c.m EXCEPT
                           !._target_variables = Append(@, <<u.name, c.value>>),
                           !.history = Append(@, [op |-> "target_variable",
                                                  name |-> u.name,
                                                  value |-> c.value])],
                  err |-> "none", ret |-> u.name]

\* [self._convert_args(i) for i in ...]
RECURSIVE convert_each(_, _, _)
convert_each(m, items, done) ==
    IF items = <<>> THEN [m |-> m, value |-> done]
    ELSE LET c == _convert_args(m, Head(items))
         IN  convert_each(c.m, Tail(items), Append(done, c.value))

\* Makefile.define: [m, err, ret]
define(m, name, value, exist_ok) ==
    LET u == _unique_var(m, name, exist_ok)
    IN  IF u.err # "none" THEN [m |-> u.m, err |-> u.err, ret |-> None]
        ELSE LET c == convert_each(u.m, iterate(value), <<>>)
             IN  IF u.exists THEN [m |-> c.m, err |-> "none", ret |-> u.name]
                 ELSE [m |-> [c.m EXCEPT
                                !._defines = Append(@, <<u.name, c.value>>),
                                !.history = Append(@, [op |-> "define",
                                                       name |-> u.name,
                                                       value |-> c.value])],
                       err |-> "none", ret |-> u.name]

\* Makefile.include
include(m, name, optional) ==
    [m |-> [m EXCEPT !._includes = Append(@, [name |-> name,
                                               optional |-> optional]),
                     !.history = Append(@, [op |-> "include", name |-> name,
                                            optional |-> optional])],
     err |-> "none", ret |-> None]

\* iterutils.listify: nothing for None, the items of a list, else the thing
listify(thing) == IF thing.k = "None" THEN <<>> ELSE iterate(thing)

\* iterutils.isiterable
isiterable(thing) == thing.k = "list"

\* what a call on a Writer leaves: the text on its stream and the error
W(r) == [out |-> r.out, err |-> r.err]

\* Makefile._target_str: [out, err]
_target_str(name, fam) == W(write(name, "target", "quote_info", fam))

\* Makefile.has_rule: name in self._targets, a set of rendered names (python
\* strs); only a str can equal one of them
MutHasRuleNever(m, name) == FALSE

has_rule(m, name) == name.k = "str" /\ name.s \in m._targets

RECURSIVE claim_targets(_, _, _)

\* one round of the loop of Makefile.rule, target being _target_str(i)
claim_target(m, target, rest, fam) ==
    IF target.err # "none" THEN [m |-> m, err |-> target.err]
    ELSE IF has_rule(m, Str(target.out)) THEN [m |-> m, err |-> "ValueError"]
    ELSE claim_targets([m EXCEPT !._targets = @ \cup {target.out}], rest, fam)

\* the loop of Makefile.rule over its targets: [m, err]
claim_targets(m, targets, fam) ==
    IF targets = <<>> THEN [m |-> m, err |-> "none"]
    ELSE claim_target(m, _target_str(Head(targets), fam), Tail(targets), fam)

\* Rule(targets, deps, order_only, recipe, variables, phony)
Rule(targets, deps, order_only, recipe, variables, phony) ==
    [targets |-> targets, deps |-> deps, order_only |-> order_only,
     recipe |-> recipe, variables |-> variables, phony |-> phony]

\* {var(k): v for k, v in variables.items()}
rule_variables(variables) ==
    [i \in 1..Len(variables) |-> <<var(variables[i][1], FALSE), variables[i][2]>>]

\* self._rules.append(Rule(...))
append_rule(m, stored) ==
    [m EXCEPT !._rules = Append(@, stored),
              !.history = Append(@, [op |-> "rule", rule |-> stored])]

\* Makefile.rule, after the loop over the targets left c = [m, err] and the
\* conversion of the recipe left r = [m, value]
rule_store(c, r, targets, deps, order_only, recipe, variables, phony) ==
    IF c.err # "none" THEN [m |-> c.m, err |-> c.err, ret |-> None]
    ELSE [m |-> append_rule(r.m,
                    Rule(targets, listify(deps), listify(order_only),
                         IF isiterable(recipe) THEN List(r.value) ELSE recipe,
                         rule_variables(variables), phony)),
          err |-> "none", ret |-> None]

\* Makefile.rule, after the loop over the targets left c = [m, err]
rule_convert(c, targets, deps, order_only, recipe, variables, phony) ==
    rule_store(c,
               IF c.err = "none" /\ isiterable(recipe)
               THEN convert_each(c.m, recipe.items, <<>>)
               ELSE [m |-> c.m, value |-> recipe],
               targets, deps, order_only, recipe, variables, phony)

MutRuleRollsBack(m, target, deps, order_only, recipe, variables, phony, fam) ==
    IF Len(listify(target)) = 0
       \/ claim_targets(m, listify(target), fam).err # "none"
    THEN [m |-> m, err |-> "ValueError", ret |-> None]
    ELSE rule_convert(claim_targets(m, listify(target), fam), listify(target),
                      deps, order_only, recipe, variables, phony)

\* Makefile.rule: [m, err, ret]
rule(m, target, deps, order_only, recipe, variables, phony, fam) ==
    IF Len(listify(target)) = 0 THEN [m |-> m, err |-> "ValueError", ret |-> None]
    ELSE rule_convert(claim_targets(m, listify(target), fam), listify(target),
                      deps, order_only, recipe, variables, phony)

----------------------------------------------------------------------------
(* Makefile.write: the calls it makes on the Writer, in order, each with   *)
(* what it puts on the stream and the error it raises                      *)

\* Writer.write_literal of one fixed fragment
Lit(tokens) == [out |-> tokens, err |-> "none"]

\* _comment_tmpl.format(self._bfgfile) + '\n\n'
Banner == "# Do not edit this file! ... build.bfg\n\n"

\* Makefile._write_variable
_write_variable(name, value, syntax, target, fam) ==
    (IF target.k = "None" THEN <<>>
     ELSE <<W(write(target, "target", "quote_info", fam)), Lit(<<": ">>)>>)
    \o <<Lit(name.name \o <<" := ">>),
         W(write_shell(value, syntax, fam)),
         Lit(<<NL>>)>>

\* for name, value in ...: self._write_variable(out, name, value, ...)
RECURSIVE write_variables(_, _, _, _)
write_variables(list, syntax, target, fam) ==
    IF list = <<>> THEN <<>>
    ELSE _write_variable(Head(list)[1], Head(list)[2], syntax, target, fam)
         \o write_variables(Tail(list), syntax, target, fam)

\* for line in value: out.write_shell(line); out.write_literal('\n')
RECURSIVE write_lines(_, _)
write_lines(value, fam) ==
    IF value = <<>> THEN <<>>
    ELSE <<W(write_shell(Head(value), "shell", fam)), Lit(<<NL>>)>>
         \o write_lines(Tail(value), fam)

\* Makefile._write_define
_write_define(name, value, fam) ==
    <<Lit(<<"define ">> \o name.name \o <<NL>>)>>
    \o write_lines(value, fam)
    \o <<Lit(<<"endef\n\n">>)>>

\* for cmd in rule.recipe: out.write_literal('\n\t'); out.write_shell(cmd)
RECURSIVE write_recipe(_, _)
write_recipe(cmds, fam) ==
    IF cmds = <<>> THEN <<>>
    ELSE <<Lit(<<NL, TAB>>), W(write_shell(Head(cmds), "shell", fam))>>
         \o write_recipe(Tail(cmds), fam)

\* for target in rule.targets: for name, value in rule.variables.items()
RECURSIVE write_rule_variables(_, _, _)
write_rule_variables(targets, variables, fam) ==
    IF targets = <<>> THEN <<>>
    ELSE write_variables(variables, "shell", Head(targets), fam)
         \o write_rule_variables(Tail(targets), variables, fam)

IsEntity(thing) == thing.k \in {"Variable", "Function", "Pattern"}

\* Makefile._write_rule
_write_rule(r, fam) ==
    (IF r.variables # <<>>
     THEN write_rule_variables(r.targets, r.variables, fam) ELSE <<>>)
    \o (IF r.phony
        THEN <<Lit(<<".PHONY: ">>),
               W(write_each(r.targets, "dependency", Literal(<<" ">>),
                            None, None, fam)),
               Lit(<<NL>>)>>
        ELSE <<>>)
    \o <<W(write_each(r.targets, "target", Literal(<<" ">>), None, None, fam)),
         Lit(<<":">>),
         W(write_each(r.deps, "dependency", Literal(<<" ">>),
                      Literal(<<" ">>), None, fam)),
         W(write_each(r.order_only, "dependency", Literal(<<" ">>),
                      Literal(<<" ", "|", " ">>), None, fam))>>
    \o (IF IsEntity(r.recipe)
        THEN <<Lit(<<" ; ">>), W(write_shell(r.recipe, "shell", fam))>>
        ELSE IF r.recipe.k # "None" THEN write_recipe(r.recipe.items, fam)
        ELSE <<>>)
    \o <<Lit(<<NL, NL>>)>>

\* the loop over one Section of Makefile.write
write_section(m, section, fam) ==
    write_variables(m._global_variables[section],
                    IF section = "path" THEN "clean" ELSE "shell", None, fam)
    \o (IF m._global_variables[section] # <<>> THEN <<Lit(<<NL>>)>> ELSE <<>>)

\* for section in Section
RECURSIVE write_sections(_, _, _)
write_sections(m, sections, fam) ==
    IF sections = <<>> THEN <<>>
    ELSE write_section(m, Head(sections), fam)
         \o write_sections(m, Tail(sections), fam)

RECURSIVE write_defines(_, _)
write_defines(defines, fam) ==
    IF defines = <<>> THEN <<>>
    ELSE _write_define(Head(defines)[1], Head(defines)[2], fam)
         \o write_defines(Tail(defines), fam)

RECURSIVE write_rules(_, _)
write_rules(rules, fam) ==
    IF rules = <<>> THEN <<>>
    ELSE _write_rule(Head(rules), fam) \o write_rules(Tail(rules), fam)

RECURSIVE write_includes(_, _)
write_includes(includes, fam) ==
    IF includes = <<>> THEN <<>>
    ELSE <<Lit(<<IF Head(includes).optional THEN "-include " ELSE "include ">>),
           W(write(Head(includes).name, "target", "quote_info", fam)),
           Lit(<<NL>>)>>
         \o write_includes(Tail(includes), fam)

\* the calls of Makefile.write, in the order it makes them
write_calls(m, fam) ==
    <<Lit(<<Banner>>),
      Lit(<<IF m._gnu THEN "MAKEFLAGS += --no-builtin-variables\n"
            ELSE ".SUFFIXES:\n">>)>>
    \o _write_variable(Variable(<<",">>, FALSE), Str(<<",">>), "shell", None, fam)
    \o <<Lit(<<NL>>)>>
    \o write_sections(m, Section, fam)
    \o write_variables(m._target_variables, "shell", Pattern(<<"%">>), fam)
    \o (IF m._target_variables # <<>> THEN <<Lit(<<NL>>)>> ELSE <<>>)
    \o write_defines(m._defines, fam)
    \o write_rules(m._rules, fam)
    \o write_includes(m._includes, fam)

\* the stream after the calls were made one after the other, up to the first
\* that raised: [out, err]
RECURSIVE run_calls(_, _)
run_calls(calls, acc) ==
    IF calls = <<>> THEN [out |-> acc, err |-> "none"]
    ELSE IF Head(calls).err # "none"
         THEN [out |-> acc \o Head(calls).out, err |-> Head(calls).err]
         ELSE run_calls(Tail(calls), acc \o Head(calls).out)

\* Makefile.write(out): [out, err]
Makefile_write(m, fam) == run_calls(write_calls(m, fam), <<>>)

\* the Makefile as write() leaves it: write, _write_variable, _write_define
\* and _write_rule read the fields of self and assign to none of them
MutWrittenDrainsRules(m, fam) == [m EXCEPT !._rules = <<>>]

written(m, fam) == m

----------------------------------------------------------------------------
(* The assembler as a state machine: contributors call its operations one  *)
(* after the other, and write() serializes it                              *)

\* the Makefile object, from its fields
Self ==
    [_var_table |-> _var_table, _global_variables |-> _global_variables,
     _target_variables |-> _target_variables, _defines |-> _defines,
     _rules |-> _rules, _targets |-> _targets, _includes |-> _includes,
     _gnu |-> _gnu, history |-> history]

\* the fields of the Makefile become those of m
Becomes(m) ==
    /\ _var_table' = m._var_table
    /\ _global_variables' = m._global_variables
    /\ _target_variables' = m._target_variables
    /\ _defines' = m._defines
    /\ _rules' = m._rules
    /\ _targets' = m._targets
    /\ _includes' = m._includes
    /\ _gnu' = m._gnu
    /\ history' = m.history

\* the fields of the Makefile are those of m
Is(m) ==
    /\ _var_table = m._var_table
    /\ _global_variables = m._global_variables
    /\ _target_variables = m._target_variables
    /\ _defines = m._defines
    /\ _rules = m._rules
    /\ _targets = m._targets
    /\ _includes = m._includes
    /\ _gnu = m._gnu
    /\ history = m.history

\* names, values and targets the contributors pass
NameCC == <<"C", "C">>
NameAB == <<"a", " ", "b">>
NameArgs == {Str(NameCC), Str(NameAB)}

ValX == Str(<<"x">>)
ValY == Str(<<"y">>)
ValNewline == Str(<<"x", NL, "y">>)
ToolCC == CommandRef(<<"c", "c">>, List(<<Str(<<"g", "c", "c">>)>>))
ValCmd == List(<<ToolCC, Str(<<"-", "c">>)>>)
\* $(call f,a$,b,c): a call with a comma inside its first argument
ValCall == Call(Str(<<"f">>), <<Str(<<"a", ",", "b">>), Str(<<"c">>)>>)

TargetArgs ==
    {Str(<<"t">>), Str(<<"a", " ", "b">>), Literal(<<"a", BS, " ", "b">>),
     PathValue("builddir", <<"t">>), Str(<<"t", NL>>),
     List(<<>>), List(<<Str(<<"u">>), Str(<<"u">>)>>),
     List(<<Str(<<"v">>), Str(<<"t">>)>>)}

\* the rest of a rule() call: deps, order_only, recipe, variables, phony
BareRule ==
    [deps |-> None, order_only |-> None, recipe |-> None,
     variables |-> <<>>, phony |-> FALSE]

FullRule ==
    [deps |-> List(<<Str(<<"d", "#">>)>>), order_only |-> Str(<<"o">>),
     recipe |-> List(<<ValCmd>>),
     variables |-> <<<<Str(<<"V">>), ValX>>>>, phony |-> TRUE]

\* the rule() calls the contributors make
RuleCalls ==
    {[target |-> t, shape |-> BareRule] : t \in TargetArgs}
    \cup {[target |-> t, shape |-> FullRule] :
            t \in {Str(<<"t">>), List(<<Str(<<"v">>), Str(<<"t">>)>>)}}

NoCall == [op |-> "none", err |-> "none", ret |-> None]

Init ==
    /\ family = "posix"
    /\ Is(Makefile(FALSE))
    /\ find_dirs = {}
    /\ depfile = None
    /\ stream = <<>>
    /\ last = NoCall
    /\ arg = None
    /\ res = None

\* a contribution is made while the Makefile holds fewer than MaxOps
MayCall == Len(history) < MaxOps

\* what every call but write() leaves of the other variables
Called(call, r) ==
    /\ Becomes(r.m)
    /\ last' = [call EXCEPT !.err = r.err, !.ret = r.ret]
    /\ stream' = <<>>
    /\ UNCHANGED <<family, arg, res, find_dirs, depfile>>

DoVariable ==
    /\ MayCall
    /\ \E name \in NameArgs, value \in {ValX, ValCmd}, section \in SectionSet,
          exist_ok \in BOOLEAN :
          Called([op |-> "variable", name |-> name, exist_ok |-> exist_ok,
                  err |-> "none", ret |-> None],
                 variable(Self, name, value, section, exist_ok))

DoTargetVariable ==
    /\ MayCall
    /\ \E name \in NameArgs, value \in {ValX, ValNewline, ValCall},
          exist_ok \in BOOLEAN :
          Called([op |-> "target_variable", name |-> name,
                  exist_ok |-> exist_ok, err |-> "none", ret |-> None],
                 target_variable(Self, name, value, exist_ok))

DoDefine ==
    /\ MayCall
    /\ \E name \in NameArgs, value \in {ValY, List(<<ValCmd, ValY>>)},
          exist_ok \in BOOLEAN :
          Called([op |-> "define", name |-> name, exist_ok |-> exist_ok,
                  err |-> "none", ret |-> None],
                 define(Self, name, value, exist_ok))

\* a repeated cmd_var contributes nothing, so it is made at any time
DoCmdVar ==
    /\ \E cmd \in {ToolCC} :
          /\ MayCall \/ has_variable(Self, Str(upper(cmd.command_var)))
          /\ Called([op |-> "cmd_var", name |-> Str(upper(cmd.command_var)),
                     exist_ok |-> TRUE, err |-> "none", ret |-> None],
                    cmd_var(Self, cmd))

DoRule ==
    /\ MayCall
    /\ \E c \in RuleCalls :
          Called([op |-> "rule", target |-> c.target,
                  err |-> "none", ret |-> None],
                 rule(Self, c.target, c.shape.deps, c.shape.order_only,
                      c.shape.recipe, c.shape.variables, c.shape.phony, family))

DoInclude ==
    /\ MayCall
    /\ \E c \in {[name |-> Str(<<"i", " ">>), optional |-> FALSE],
                 [name |-> Str(<<"i", " ">>), optional |-> TRUE],
                 [name |-> Unsupported, optional |-> FALSE]} :
          Called([op |-> "include", err |-> "none", ret |-> None],
                 include(Self, c.name, c.optional))

\* Makefile.write(out) on a fresh stream
DoWrite ==
    /\ Becomes(written(Self, family))
    /\ stream' = Makefile_write(Self, family).out
    /\ last' = [op |-> "write", err |-> Makefile_write(Self, family).err,
                ret |-> None]
    /\ UNCHANGED <<family, arg, res, find_dirs, depfile>>

Next ==
    \/ DoVariable
    \/ DoTargetVariable
    \/ DoDefine
    \/ DoCmdVar
    \/ DoRule
    \/ DoInclude
    \/ DoWrite

Spec == Init /\ [][Next]_vars

----------------------------------------------------------------------------
(* Claims about the assembler, checked under Spec *)

\* the rendered names of the targets of the stored rules, rule after rule
RECURSIVE RenderedTargets(_, _)
RenderedTargets(targets, fam) ==
    IF targets = <<>> THEN <<>>
    ELSE <<_target_str(Head(targets), fam).out>>
         \o RenderedTargets(Tail(targets), fam)

RECURSIVE StoredTargets(_)
StoredTargets(rules) ==
    IF rules = <<>> THEN <<>>
    ELSE Head(rules).targets \o StoredTargets(Tail(rules))

NoDuplicates(seq) == \A i, j \in 1..Len(seq) : seq[i] = seq[j] => i = j

\* a call of rule() with these targets finds one of them claimed: by the
\* Makefile as it stands, or earlier in the same list
FindsClaimed(targets, claimed, fam) ==
    LET names == RenderedTargets(targets, fam)
    IN  \E i \in 1..Len(names) :
            \/ names[i] \in claimed
            \/ \E j \in 1..(i - 1) : names[j] = names[i]

\* C1: after any sequence of rule() calls no rendered target name belongs to
\* two stored rules or twice to one, and a rule() call whose target list is
\* empty or holds a name already claimed raises ValueError and stores nothing
C1_UniqueTargets ==
    [][/\ NoDuplicates(RenderedTargets(StoredTargets(_rules'), family))
       /\ (last'.op = "rule"
              /\ (listify(last'.target) = <<>>
                    \/ FindsClaimed(listify(last'.target), _targets, family)))
           => (last'.err = "ValueError" /\ _rules' = _rules)]_vars

\* a rule() call was refused for a target that a stored rule already builds
C1_Witness ==
    /\ last.op = "rule"
    /\ last.err = "ValueError"
    /\ Len(_rules) >= 1
    /\ listify(last.target) # <<>>
    /\ \E i \in 1..Len(listify(last.target)) :
          _target_str(listify(last.target)[i], family).out
              \in {RenderedTargets(StoredTargets(_rules), family)[j] :
                     j \in 1..Len(StoredTargets(_rules))}

\* the three kinds of bucket that hold declared variables
Buckets == <<_global_variables, _target_variables, _defines>>

\* C2: variable() on a name already declared raises ValueError without
\* exist_ok and leaves what is stored as it was; with exist_ok it succeeds,
\* returns the same name and appends nothing, so that the value of the first
\* declaration stays stored
C2_Redeclare ==
    [][(last'.op = "variable" /\ has_variable(Self, last'.name))
        => /\ Buckets' = Buckets
           /\ IF last'.exist_ok
              THEN last'.err = "none" /\ last'.ret = var(last'.name, FALSE)
              ELSE last'.err = "ValueError"]_vars

\* the names of the entries of one bucket
EntryNames(list) == [i \in 1..Len(list) |-> list[i][1].name]

\* the names of all entries: the four sections, the target variables, the
\* defines
AllEntryNames ==
    EntryNames(_global_variables["path"])
    \o EntryNames(_global_variables["command"])
    \o EntryNames(_global_variables["flags"])
    \o EntryNames(_global_variables["other"])
    \o EntryNames(_target_variables)
    \o EntryNames(_defines)

\* variable() was refused for a name whose entry an earlier call stored
C2_Witness ==
    /\ last.op = "variable"
    /\ ~last.exist_ok
    /\ last.err = "ValueError"
    /\ Count(AllEntryNames, var(last.name, FALSE).name) = 1

\* C3: variable(), target_variable(), define() and cmd_var() share one
\* domain of names: every declared name has at most one entry in the union
\* of the sections, the target variables and the defines, and a name that
\* is declared is refused by each of them without exist_ok
C3_OneDomain ==
    [][/\ \A n \in _var_table' : Count(AllEntryNames', n.name) <= 1
       /\ \A i \in 1..Len(AllEntryNames') :
             \E n \in _var_table' : n.name = AllEntryNames'[i]
       /\ (/\ last'.op \in {"variable", "target_variable", "define"}
           /\ ~last'.exist_ok
           /\ has_variable(Self, last'.name))
          => (last'.err = "ValueError" /\ Buckets' = Buckets)]_vars

\* target_variable() was refused for a name that define() declared
C3_Witness ==
    /\ last.op = "target_variable"
    /\ last.err = "ValueError"
    /\ Count(EntryNames(_defines), var(last.name, FALSE).name) = 1
    /\ Count(AllEntryNames, var(last.name, FALSE).name) = 1

----------------------------------------------------------------------------
(* The order of the serialized file *)

\* the contributions of one kind, as (name, value) entries in call order
Contributed(op, section) ==
    LET picked == SelectSeq(history,
                      LAMBDA h : h.op = op /\ (op = "variable" => h.section = section))
    IN  [i \in 1..Len(picked) |-> <<picked[i].name, picked[i].value>>]

ContributedRules ==
    LET picked == SelectSeq(history, LAMBDA h : h.op = "rule")
    IN  [i \in 1..Len(picked) |-> picked[i].rule]

ContributedIncludes ==
    LET picked == SelectSeq(history, LAMBDA h : h.op = "include")
    IN  [i \in 1..Len(picked) |-> [name |-> picked[i].name,
                                   optional |-> picked[i].optional]]

BlankAfter(list) == IF list # <<>> THEN <<Lit(<<NL>>)>> ELSE <<>>

\* the file in the fixed order, built from the calls in the order they were
\* made
ExpectedCalls ==
    <<Lit(<<Banner>>),
      Lit(<<IF _gnu THEN "MAKEFLAGS += --no-builtin-variables\n"
            ELSE ".SUFFIXES:\n">>),
      Lit(<<",", " := ">>), Lit(<<",">>), Lit(<<NL>>), Lit(<<NL>>)>>
    \o write_variables(Contributed("variable", "path"), "clean", None, family)
    \o BlankAfter(Contributed("variable", "path"))
    \o write_variables(Contributed("variable", "command"), "shell", None, family)
    \o BlankAfter(Contributed("variable", "command"))
    \o write_variables(Contributed("variable", "flags"), "shell", None, family)
    \o BlankAfter(Contributed("variable", "flags"))
    \o write_variables(Contributed("variable", "other"), "shell", None, family)
    \o BlankAfter(Contributed("variable", "other"))
    \o write_variables(Contributed("target_variable", "-"), "shell",
                       Pattern(<<"%">>), family)
    \o BlankAfter(Contributed("target_variable", "-"))
    \o write_defines(Contributed("define", "-"), family)
    \o write_rules(ContributedRules, family)
    \o write_includes(ContributedIncludes, family)

\* C4: write() emits the banner, the directive against built-in rules, the
\* comma variable, the sections path, command, flags, other (a blank line
\* after each that is not empty), the target variables, the defines, the
\* rules and the includes, each bucket in the order of the calls that
\* filled it, whatever the order of the calls across buckets
C4_FixedOrder ==
    (last.op = "write" /\ last.err = "none")
        => stream = run_calls(ExpectedCalls, <<>>).out

\* a file was written whose contributions were made against the file's order
C4_Witness ==
    /\ last.op = "write"
    /\ last.err = "none"
    /\ Len(history) >= 2
    /\ \/ (history[1].op = "include" /\ history[2].op = "rule")
       \/ (/\ history[1].op = "variable" /\ history[1].section = "other"
           /\ history[2].op = "variable" /\ history[2].section = "path")

----------------------------------------------------------------------------
(* Probes and failures *)

\* C5: has_rule(t) is true for every target t that a successful rule() call
\* listed (the statement of the claim)
C5_HasRuleProbe ==
    \A i \in 1..Len(StoredTargets(_rules)) :
        has_rule(Self, StoredTargets(_rules)[i])

\* C6: when write() raises, the stream it was handed holds nothing (the
\* statement of the claim)
C6_NoPartialOutput ==
    (last.op = "write" /\ last.err # "none") => stream = <<>>

----------------------------------------------------------------------------
(* The pure functions, each applied once to an input drawn from a bounded  *)
(* set: escape_str and the rendering of lists, Pattern, Writer.write       *)

\* the state of the Makefile plays no part
Idle ==
    /\ Is(Makefile(FALSE))
    /\ find_dirs = {}
    /\ depfile = None
    /\ stream = <<>>
    /\ last = NoCall

\* one representative of each class of characters escape_str tells apart
EscAlphabet == {"a", "*", " ", "#", "%", ":", "|", "~", "$", BS}
PatAlphabet == {"a", BS, "%", "$", " "}

\* the glob characters and the others escape_str names one by one
GlobAlphabet == {"?", "[", "]", TAB, ",", "~", BS}

\* the characters Variable replaces, and some it leaves alone
VarAlphabet == {"a", " ", NL, ":", "#", "=", "$", "'"}

TextInit ==
    /\ Idle
    /\ family \in {"posix", "windows"}
    /\ res = None
    /\ \/ arg \in {[fn |-> "escape_str", text |-> t, syntax |-> syn] :
                     t \in Texts(EscAlphabet, MaxLen)
                           \cup Texts(GlobAlphabet, MaxLen),
                     syn \in Syntax}
       \/ (family = "posix"
           /\ arg \in {[fn |-> "Pattern", text |-> t] :
                         t \in Texts(PatAlphabet, MaxLen)})
       \/ (family = "posix"
           /\ arg \in {[fn |-> "Variable", text |-> t, quoted |-> q,
                         syntax |-> syn] :
                         t \in Texts(VarAlphabet, MaxLen), q \in BOOLEAN,
                         syn \in Syntax})

\* Writer.escape_str on the text, and the text written as the first item of
\* a list of two (out.write_each(rule.targets, Syntax.target))
DoEscape ==
    /\ arg.fn = "escape_str"
    /\ res = None
    /\ res' = [escaped |-> escape_str(arg.text, arg.syntax, family),
               listed |-> W(write_each(<<Str(arg.text), Str(<<"b">>)>>,
                                       arg.syntax, Literal(<<" ">>),
                                       None, None, family))]
    /\ UNCHANGED <<family, arg>>
    /\ UNCHANGED mfvars

\* what Pattern(text) is written as
written_pattern(p, syntax, fam) ==
    IF p.k = "Pattern" THEN W(write(p, syntax, "quote_info", fam))
    ELSE [out |-> <<>>, err |-> p.k]

\* Pattern(text), what its use() returns and what the Writer makes of it
DoPattern ==
    /\ arg.fn = "Pattern"
    /\ res = None
    /\ res' = [pattern |-> Pattern(arg.text),
               target |-> written_pattern(Pattern(arg.text), "target", family),
               dependency |-> written_pattern(Pattern(arg.text), "dependency",
                                              family)]
    /\ UNCHANGED <<family, arg>>
    /\ UNCHANGED mfvars

\* var(name, quoted), and what the Writer makes of it in a context
DoVariableRef ==
    /\ arg.fn = "Variable"
    /\ res = None
    /\ res' = [variable |-> var(Str(arg.text), arg.quoted),
               written |-> W(write(var(Str(arg.text), arg.quoted), arg.syntax,
                                   "quote_info", family))]
    /\ UNCHANGED <<family, arg>>
    /\ UNCHANGED mfvars

TextNext == DoEscape \/ DoPattern \/ DoVariableRef

SpecText == TextInit /\ [][TextNext]_vars

\* the values handed to Writer.write
WriterTexts == {<<"a">>, <<"$">>, <<"a", NL>>, <<",", "$">>}

Leaves ==
    {Str(t) : t \in WriterTexts}
    \cup {Literal(t) : t \in WriterTexts}
    \cup {ShellLiteral(t) : t \in WriterTexts}

RECURSIVE TuplesOfLen(_, _)
TuplesOfLen(S, n) ==
    IF n = 0 THEN {<<>>}
    ELSE {<<x>> \o t : x \in S, t \in TuplesOfLen(S, n - 1)}

Concatenations == {Jbos(b) : b \in UNION {TuplesOfLen(Leaves, n) : n \in 1..MaxBits}}

Overrides(S) ==
    {syntax_string(x, syn, q) :
        x \in S, syn \in {"None", "target", "function"}, q \in BOOLEAN}

\* what a path may hold below its root: nothing, a blank, a quote
PathTexts == WriterTexts \cup {<<>>, <<"a", " ">>, <<"'", "a">>}

Paths == {PathValue(root, t) : root \in {"srcdir", "builddir"}, t \in PathTexts}

Functions ==
    {Function(<<"f">>, <<x>>, q) : x \in Leaves, q \in BOOLEAN}
    \cup {Function(<<"f">>, <<List(<<x, Str(<<"a">>)>>), Str(<<"$">>)>>, FALSE) :
            x \in Leaves}

Wrapped == Overrides(Leaves) \cup Paths \cup Functions

WriterThings ==
    Leaves
    \cup Concatenations
    \cup Overrides(Leaves \cup {Jbos(b) : b \in TuplesOfLen(Leaves, 2)})
    \cup Paths
    \cup Functions
    \cup {Jbos(<<x, w>>) : x \in Leaves, w \in Wrapped}
    \cup Overrides(Paths \cup Functions \cup Overrides(Leaves))

WriterInit ==
    /\ Idle
    /\ family = "posix"
    /\ res = None
    /\ arg \in {[fn |-> "write", thing |-> t, syntax |-> syn] :
                  t \in WriterThings, syn \in Syntax}

\* Writer(stream).write(thing, syntax)
DoWriterWrite ==
    /\ arg.fn = "write"
    /\ res = None
    /\ res' = write(arg.thing, arg.syntax, "quote_info", family)
    /\ UNCHANGED <<family, arg>>
    /\ UNCHANGED mfvars

SpecWriter == WriterInit /\ [][DoWriterWrite]_vars

----------------------------------------------------------------------------
(* C7..C10: the Writer and Pattern as pure functions *)

\* a raw text with a newline somewhere inside the value
RECURSIVE HasNewline(_)
HasNewline(thing) ==
    CASE thing.k \in {"str", "literal", "shell_literal"} -> Contains(thing.s, NL)
      [] thing.k = "jbos" ->
            \E i \in 1..Len(thing.bits) : HasNewline(thing.bits[i])
      [] thing.k = "syntax_string" -> HasNewline(thing.data)
      [] thing.k = "path" -> Contains(thing.suffix, NL)
      [] thing.k = "Function" ->
            \E i \in 1..Len(thing.args) :
                \E j \in 1..Len(iterate(thing.args[i])) :
                    HasNewline(iterate(thing.args[i])[j])
      [] OTHER -> FALSE

\* a forced literal with a newline somewhere inside the value
RECURSIVE HasLiteralNewline(_)
HasLiteralNewline(thing) ==
    CASE thing.k = "literal" -> Contains(thing.s, NL)
      [] thing.k = "jbos" ->
            \E i \in 1..Len(thing.bits) : HasLiteralNewline(thing.bits[i])
      [] thing.k = "syntax_string" -> HasLiteralNewline(thing.data)
      [] thing.k = "Function" ->
            \E i \in 1..Len(thing.args) :
                \E j \in 1..Len(iterate(thing.args[i])) :
                    HasLiteralNewline(iterate(thing.args[i])[j])
      [] OTHER -> FALSE

Written == arg.fn = "write" /\ res # None

\* C7: a value with a newline in any raw text inside it (plain text, shell
\* literal or forced literal; alone, inside a concatenation, a context
\* override, a function call or a path) makes Writer.write raise ValueError,
\* in every syntax context
C7_NewlineFails ==
    (Written /\ HasNewline(arg.thing)) => res.err = "ValueError"

\* what the code does keep: the newline of a plain text, of a shell literal
\* or of a path is refused wherever it is written, and the only newline that
\* gets through is the one of a forced literal, which is written as it is
C7_EscapedNewlineFails ==
    Written =>
        /\ (HasNewline(arg.thing) /\ res.err = "none")
              => HasLiteralNewline(arg.thing)
        /\ (arg.thing.k = "literal")
              => (res.err = "none" /\ res.out = arg.thing.s)

C7_LiteralNewlineWritten ==
    /\ Written
    /\ arg.thing.k = "literal"
    /\ Contains(arg.thing.s, NL)
    /\ res.err = "none"
    /\ Contains(res.out, NL)

\* make's reading of a list of targets or of dependencies, spelled out from
\* the GNU make manual: "$$" is one "$"; a run of backslashes in front of a
\* character make gives a meaning to quotes pairwise, and an odd backslash
\* left over takes the meaning of the character away; backslashes elsewhere
\* stand for themselves; unquoted whitespace ends an item; an unquoted
\* special character is not part of any name
MakeSpecial(syntax) ==
    {"?", "*", "[", "]", "#", "%", ":", " ", TAB}
    \cup (IF syntax = "dependency" THEN {"|"} ELSE {})

Meta == "<meta>"

Closed(items, cur) == IF cur = <<>> THEN items ELSE Append(items, cur)

RECURSIVE MakeParse(_, _, _, _, _)
MakeParse(s, i, cur, items, syntax) ==
    IF i > Len(s) THEN Closed(items, cur)
    ELSE IF s[i] = "$"
    THEN IF i < Len(s) /\ s[i + 1] = "$"
         THEN MakeParse(s, i + 2, Append(cur, "$"), items, syntax)
         ELSE MakeParse(s, i + 1, Append(cur, Meta), items, syntax)
    ELSE IF s[i] = BS
    THEN LET k == RunFrom(s, i)
             j == i + k
             special == /\ j <= Len(s)
                        /\ \/ s[j] \in MakeSpecial(syntax)
                           \/ (s[j] = "~" /\ cur = <<>>)
         IN  IF ~special
             THEN MakeParse(s, j, cur \o Repeat(BS, k), items, syntax)
             ELSE IF k % 2 = 1
             THEN MakeParse(s, j + 1,
                            cur \o Repeat(BS, k \div 2) \o <<s[j]>>,
                            items, syntax)
             ELSE IF s[j] \in WhiteSpace
             THEN MakeParse(s, j + 1, <<>>,
                            Closed(items, cur \o Repeat(BS, k \div 2)), syntax)
             ELSE MakeParse(s, j + 1,
                            cur \o Repeat(BS, k \div 2) \o <<Meta>>,
                            items, syntax)
    ELSE IF s[i] \in WhiteSpace
    THEN MakeParse(s, i + 1, <<>>, Closed(items, cur), syntax)
    ELSE IF s[i] \in MakeSpecial(syntax) \/ (s[i] = "~" /\ cur = <<>>)
    THEN MakeParse(s, i + 1, Append(cur, Meta), items, syntax)
    ELSE MakeParse(s, i + 1, Append(cur, s[i]), items, syntax)

Listed ==
    /\ arg.fn = "escape_str"
    /\ arg.syntax \in {"target", "dependency"}
    /\ arg.text # <<>>
    /\ res # None

\* C8: a text over glob characters, whitespace, '#', '%', ':', '|', '~', '$'
\* and backslash, written under Syntax.target or Syntax.dependency as an item
\* of a space-separated list, is read back by make as that one item with
\* exactly the original text
C8_RoundTrip ==
    (Listed /\ family = "posix")
        => /\ res.listed.err = "none"
           /\ MakeParse(res.listed.out, 1, <<>>, <<>>, arg.syntax)
                 = <<arg.text, <<"b">>>>

\* the texts the round trip does hold for: those that do not end in a
\* backslash and do not open with backslashes in front of a "~"
Unquotable(t) ==
    \/ t[Len(t)] = BS
    \/ (RunFrom(t, 1) > 0 /\ RunFrom(t, 1) < Len(t)
        /\ t[RunFrom(t, 1) + 1] = "~")

C8_RoundTripQuotable ==
    (Listed /\ family = "posix" /\ ~Unquotable(arg.text))
        => /\ res.listed.err = "none"
           /\ MakeParse(res.listed.out, 1, <<>>, <<>>, arg.syntax)
                 = <<arg.text, <<"b">>>>

\* the "$" characters a value has to come out with: two for each "$" of a
\* plain text or of a shell literal and one more for each "," escaped in a
\* function context, those of a forced literal as they are
RECURSIVE ExpectedDollars(_, _)
ExpectedDollars(thing, syntax) ==
    CASE thing.k \in {"str", "shell_literal"} ->
            2 * Count(thing.s, "$")
            + (IF syntax = "function" THEN Count(thing.s, ",") ELSE 0)
      [] thing.k = "literal" -> Count(thing.s, "$")
      [] thing.k = "jbos" ->
            IF thing.bits = <<>> THEN 0
            ELSE ExpectedDollars(Head(thing.bits), syntax)
                 + ExpectedDollars(Jbos(Tail(thing.bits)), syntax)
      [] thing.k = "syntax_string" ->
            ExpectedDollars(thing.data,
                IF thing.syntax = "None" THEN syntax ELSE thing.syntax)
      [] thing.k = "path" ->
            2 * Count(thing.suffix, "$") + (IF thing.root = "srcdir" THEN 1 ELSE 0)
            + (IF syntax = "function" THEN Count(thing.suffix, ",") ELSE 0)
      [] thing.k = "Function" ->
            1 + ExpectedDollars(
                    Jbos(FunctionBits(tween(thing.args, Literal(<<",">>),
                                            Literal(<<" ">>), None))),
                    "function")
      [] OTHER -> 0

\* a "$" of a plain text below a concatenation
DollarInside(thing) ==
    /\ thing.k = "jbos"
    /\ \E i \in 1..Len(thing.bits) :
          thing.bits[i].k = "str" /\ Contains(thing.bits[i].s, "$")

\* C9: every "$" of a string comes out as exactly "$$", once, in every
\* syntax context and however deep the string sits inside concatenations,
\* context overrides, function calls or paths
C9_DollarDoubledOnce ==
    (Written /\ res.err = "none")
        => /\ Count(res.out, "$") = ExpectedDollars(arg.thing, arg.syntax)
           /\ (arg.thing.k = "str" /\ arg.syntax \in {"target", "clean"})
                 => res.out = DoubleDollar(arg.thing.s)

C9_Witness ==
    /\ Written
    /\ res.err = "none"
    /\ arg.thing.k = "syntax_string"
    /\ arg.thing.syntax = "function"
    /\ arg.syntax = "target"
    /\ DollarInside(arg.thing.data)
    /\ Count(res.out, "$") >= 2

\* the unescaped markers of a template: each "%" with an even number of
\* backslashes right in front of it
Markers(t) ==
    Cardinality({i \in 1..Len(t) : t[i] = "%" /\ RunBefore(t, i) % 2 = 0})

RECURSIVE Flatten(_)
Flatten(bits) ==
    IF bits = <<>> THEN <<>> ELSE Head(bits).s \o Flatten(Tail(bits))

Patterned == arg.fn = "Pattern" /\ res # None

\* C10: Pattern(template) raises ValueError exactly when the template does
\* not hold one unescaped "%" (one with an even number of backslashes in
\* front); otherwise what it renders is the template text, every "%" of it
\* a literal bit, and a template of plain characters, backslashes and "%"
\* is written exactly as it stands
C10_PatternMarker ==
    Patterned =>
        /\ (res.pattern.k = "ValueError") <=> (Markers(arg.text) # 1)
        /\ (res.pattern.k = "Pattern") =>
              /\ Flatten(Pattern_use(res.pattern).bits) = arg.text
              /\ \A i \in 1..Len(Pattern_use(res.pattern).bits) :
                    LET bit == Pattern_use(res.pattern).bits[i]
                    IN  Contains(bit.s, "%") => bit = Literal(<<"%">>)
              /\ res.target.err = "none"
              /\ (arg.text \in Seq({"a", BS, "%"}))
                    => (res.target.out = arg.text
                        /\ res.dependency.out = arg.text)

C10_Witness ==
    /\ Patterned
    /\ res.pattern.k = "Pattern"
    /\ Count(arg.text, "%") = 2
    /\ Contains(arg.text, BS)
    /\ res.target.out = arg.text

----------------------------------------------------------------------------
(* C11: commas inside the arguments of a function call *)

\* the commas of a written text that make reads as commas, and those it
\* reads as the reference "$,": "$" takes the character after it with it
RECURSIVE RawCommas(_, _)
RawCommas(s, i) ==
    IF i > Len(s) THEN 0
    ELSE IF s[i] = "$" THEN RawCommas(s, i + 2)
    ELSE (IF s[i] = "," THEN 1 ELSE 0) + RawCommas(s, i + 1)

RECURSIVE CommaRefs(_, _)
CommaRefs(s, i) ==
    IF i >= Len(s) THEN 0
    ELSE IF s[i] = "$"
    THEN (IF s[i + 1] = "," THEN 1 ELSE 0) + CommaRefs(s, i + 2)
    ELSE CommaRefs(s, i + 1)

\* the contributions that hold a function call, as they were made
RECURSIVE CallsMade(_)
CallsMade(h) ==
    IF h = <<>> THEN <<>>
    ELSE (IF h[1].op = "target_variable" /\ h[1].value.k = "Function"
          THEN <<h[1].value>> ELSE <<>>)
         \o CallsMade(Tail(h))

\* the commas in the text of the arguments of a call, and the places
\* between its arguments
RECURSIVE ArgCommas(_)
ArgCommas(args) ==
    IF args = <<>> THEN 0
    ELSE (IF Head(args).k = "str" THEN Count(Head(args).s, ",") ELSE 0)
         + ArgCommas(Tail(args))

RECURSIVE SumOver(_, _)
SumOver(calls, which) ==
    IF calls = <<>> THEN 0
    ELSE (IF which = "text" THEN ArgCommas(Head(calls).args)
          ELSE Len(Head(calls).args) - 1)
         + SumOver(Tail(calls), which)

\* the definition of the helper variable, and where it ends on the stream:
\* behind the banner and the built-in-rules line
HelperDefinition == <<",", " := ", ",", NL>>
HelperEnd == 2 + Len(HelperDefinition)

\* C11: in the serialized file the helper variable "," is defined right
\* after the banner and the built-in-rules line, before every section and
\* rule; behind it every comma of the text of a call's argument stands as
\* "$," and the only raw commas are the ones between arguments
C11_CommaEscaped ==
    (last.op = "write" /\ last.err = "none") =>
        /\ Len(stream) >= HelperEnd
        /\ SubSeq(stream, 3, HelperEnd) = HelperDefinition
        /\ CommaRefs(SubSeq(stream, HelperEnd + 1, Len(stream)), 1)
              = SumOver(CallsMade(history), "text")
        /\ RawCommas(SubSeq(stream, HelperEnd + 1, Len(stream)), 1)
              = SumOver(CallsMade(history), "between")

C11_Witness ==
    /\ last.op = "write"
    /\ last.err = "none"
    /\ CallsMade(history) # <<>>
    /\ SumOver(CallsMade(history), "text") >= 1
    /\ \E i \in (HelperEnd + 1)..(Len(stream) - 1) :
          stream[i] = "$" /\ stream[i + 1] = ","

----------------------------------------------------------------------------
(* C12: cmd_var *)

\* the variable cmd_var names for the tool, and the entry it stores
ToolVar == Variable(upper(ToolCC.command_var), FALSE)
ToolEntry == <<ToolVar, ToolCC.command>>

\* C12 as it is stated: after cmd_var(tool) the tool's variable is returned
\* and has exactly one entry, which is in the command section and holds the
\* tool's command
C12_OneCommandEntry ==
    last.op = "cmd_var" =>
        /\ last.err = "none"
        /\ last.ret = ToolVar
        /\ Count(AllEntryNames, ToolVar.name) = 1
        /\ \E i \in 1..Len(_global_variables["command"]) :
              _global_variables["command"][i] = ToolEntry

\* C12, amended: cmd_var(tool) never raises and returns the variable named
\* by the upper-cased command_var; for a name not declared yet it appends
\* the one entry (name, command) to the command section, and for a declared
\* name, whoever declared it, it changes nothing; the name has exactly one
\* entry afterwards
C12_CmdVarIdempotent ==
    [][last'.op = "cmd_var" =>
         /\ last'.err = "none"
         /\ last'.ret = ToolVar
         /\ \E n \in _var_table' : n.name = ToolVar.name
         /\ Count(AllEntryNames', ToolVar.name) = 1
         /\ _target_variables' = _target_variables
         /\ _defines' = _defines
         /\ _rules' = _rules
         /\ IF \E n \in _var_table : n.name = ToolVar.name
            THEN _global_variables' = _global_variables
            ELSE _global_variables' =
                    [_global_variables EXCEPT
                        !["command"] = Append(@, ToolEntry)]]_vars

\* cmd_var was called again after the tool's entry and one more contribution
C12_Witness ==
    /\ last.op = "cmd_var"
    /\ Len(history) = 2
    /\ history[1].op = "variable"
    /\ history[1].section = "command"
    /\ <<history[1].name, history[1].value>> = ToolEntry
    /\ _global_variables["command"][1] = ToolEntry
    /\ Count(AllEntryNames, ToolVar.name) = 1

----------------------------------------------------------------------------
(* C13: write() and the state of the assembler *)

----------------------------------------------------------------------------
(* The regeneration step: make_regenerate_rule and write_depfile *)

\* depfile_name
depfile_name == <<".", "b", "f", "g", "_", "f", "i", "n", "d", "_", "d", "e", "p", "s">>
MakefileName == <<"M", "a", "k", "e", "f", "i", "l", "e">>
\* build_inputs.bfgpath: the project-description file
bfgpath == PathValue("srcdir", <<"b", "u", "i", "l", "d", ".", "b", "f", "g">>)
\* env.tool('bfg9000')
bfg9000 ==
    CommandRef(<<"b", "f", "g", "9", "0", "0", "0">>, List(<<Str(<<"b", "f", "g", "9", "0", "0", "0">>)>>))

\* Bfg9000.regenerate(cmd, builddir)
regenerate(cmd, builddir) == List(<<cmd, Str(<<"r", "e", "f", "r", "e", "s", "h">>), builddir>>)

\* os.path.abspath of a scanned directory
abspath(d) == <<"/", "w", "/">> \o d

\* the two loops of write_depfile over seen_dirs
RECURSIVE depfile_deps(_, _)
depfile_deps(dirs, fam) ==
    IF dirs = <<>> THEN <<>>
    ELSE <<Lit(<<" ">>),
           W(write(Str(abspath(Head(dirs))), "dependency", "quote_info", fam))>>
         \o depfile_deps(Tail(dirs), fam)

RECURSIVE depfile_targets(_, _)
depfile_targets(dirs, fam) ==
    IF dirs = <<>> THEN <<>>
    ELSE <<W(write(Str(abspath(Head(dirs))), "target", "quote_info", fam)),
           Lit(<<":", NL>>)>>
         \o depfile_targets(Tail(dirs), fam)

MutWriteDepfileNeverMakeify(output, seen_dirs, makeify, fam) ==
    run_calls(<<W(write(Str(output), "target", "quote_info", fam)),
                Lit(<<":">>)>>
              \o depfile_deps(seen_dirs, fam)
              \o <<Lit(<<NL>>)>>,
              <<>>)

\* write_depfile(path, output, seen_dirs, makeify): [out, err], the text of
\* the file and the error raised
write_depfile(output, seen_dirs, makeify, fam) ==
    run_calls(<<W(write(Str(output), "target", "quote_info", fam)),
                Lit(<<":">>)>>
              \o depfile_deps(seen_dirs, fam)
              \o <<Lit(<<NL>>)>>
              \o (IF makeify THEN depfile_targets(seen_dirs, fam) ELSE <<>>),
              <<>>)

\* the end of make_regenerate_rule: buildfile.rule(...), r being what it
\* returned and file the dependency file written before it (None if none)
regenerate_done(r, file) ==
    [m |-> r.m, err |-> r.err, ret |-> None, depfile |-> file]

\* buildfile.rule(target=Path('Makefile'), deps=[bfgpath],
\*                recipe=[bfg9000.regenerate(bfgcmd, Path('.'))])
MutRegenerateNoDeps(m, bfgcmd, fam) ==
    rule(m, PathValue("builddir", MakefileName), None, None,
         List(<<regenerate(bfgcmd, PathValue("builddir", <<>>))>>),
         <<>>, FALSE, fam)

regenerate_rule(m, bfgcmd, fam) ==
    rule(m, PathValue("builddir", MakefileName), List(<<bfgpath>>), None,
         List(<<regenerate(bfgcmd, PathValue("builddir", <<>>))>>),
         <<>>, FALSE, fam)

\* make_regenerate_rule behind bfgcmd = make.cmd_var(bfg9000, buildfile),
\* c being what cmd_var returned and file what write_depfile wrote
regenerate_body(c, dirs, file, fam) ==
    IF dirs = <<>> THEN regenerate_done(regenerate_rule(c.m, c.ret, fam), None)
    ELSE IF file.err # "none"
    THEN [m |-> c.m, err |-> file.err, ret |-> None, depfile |-> Str(file.out)]
    ELSE regenerate_done(
             regenerate_rule(include(c.m, Str(depfile_name), FALSE).m,
                             c.ret, fam),
             Str(file.out))

\* make_regenerate_rule(build_inputs, buildfile, env), dirs being find_dirs
\* in the order the set is iterated: [m, err, ret, depfile]
make_regenerate_rule(m, dirs, fam) ==
    regenerate_body(cmd_var(m, bfg9000), dirs,
                    write_depfile(MakefileName, dirs, TRUE, fam), fam)

\* the directories find_files may scan
Dirs == {<<"s">>, <<"a", " ", "b">>}

\* the orders a set of directories is iterated in
Orders(S) ==
    {o \in UNION {[1..n -> S] : n \in 0..Cardinality(S)} :
        /\ Len(o) = Cardinality(S)
        /\ \A i, j \in 1..Len(o) : i # j => o[i] # o[j]}

RegenInit ==
    /\ family = "posix"
    /\ Is(Makefile(FALSE))
    /\ find_dirs = {}
    /\ depfile = None
    /\ stream = <<>>
    /\ last = NoCall
    /\ arg = None
    /\ res = None

\* contributions end where the post_rule hooks begin
Contributing == last.op \notin {"regenerate", "write"}

\* find_files(..., cache): the directories it walked join find_dirs
DoFindFiles ==
    /\ Contributing
    /\ \E seen \in SUBSET Dirs, cache \in BOOLEAN :
          /\ find_dirs' = IF cache THEN find_dirs \cup seen ELSE find_dirs
          /\ last' = [op |-> "find_files", err |-> "none", ret |-> None]
    /\ UNCHANGED <<family, arg, res, depfile, stream>>
    /\ UNCHANGED <<_var_table, _global_variables, _target_variables, _defines,
                   _rules, _targets, _includes, _gnu, history>>

\* a rule of the project itself, before the hook
DoProjectRule ==
    /\ Contributing
    /\ MayCall
    /\ \E t \in {Str(MakefileName), PathValue("builddir", MakefileName),
                 Str(<<"t">>), List(<<Str(<<"u">>), Str(MakefileName)>>)} :
          Called([op |-> "rule", target |-> t, err |-> "none", ret |-> None],
                 rule(Self, t, None, None, None, <<>>, FALSE, family))

\* the post_rule hook of the make backend
DoRegenerate ==
    /\ Contributing
    /\ \E dirs \in Orders(find_dirs) :
          /\ Becomes(make_regenerate_rule(Self, dirs, family).m)
          /\ depfile' = make_regenerate_rule(Self, dirs, family).depfile
          /\ last' = [op |-> "regenerate",
                      err |-> make_regenerate_rule(Self, dirs, family).err,
                      ret |-> None]
    /\ stream' = <<>>
    /\ UNCHANGED <<family, arg, res, find_dirs>>

RegenNext == DoFindFiles \/ DoProjectRule \/ DoRegenerate \/ DoWrite

SpecRegen == RegenInit /\ [][RegenNext]_vars

----------------------------------------------------------------------------
(* C14: what the regeneration step contributes *)

\* the rule the step stores: Makefile, depending on the project-description
\* file, made by running the generator again
RegenerateRule ==
    Rule(<<PathValue("builddir", MakefileName)>>, <<bfgpath>>, <<>>,
         List(<<List(<<Variable(upper(bfg9000.command_var), FALSE),
                       Str(<<"r", "e", "f", "r", "e", "s", "h">>),
                       PathValue("builddir", <<>>)>>)>>),
         <<>>, FALSE)

\* the rules that have the build file among their targets
MakefileRules ==
    {i \in 1..Len(_rules) :
        \E j \in 1..Len(_rules[i].targets) :
            _target_str(_rules[i].targets[j], family).out = MakefileName}

DepfileInclude == [name |-> Str(depfile_name), optional |-> FALSE]

\* C14 as it is stated: after the regeneration step there is exactly one
\* rule for the build file, the one that depends on the project-description
\* file and runs the generator again, and the dependency file is written and
\* included exactly if find_dirs is not empty
C14_RegenerateAlways ==
    last.op = "regenerate" =>
        /\ last.err = "none"
        /\ Cardinality(MakefileRules) = 1
        /\ _rules # <<>>
        /\ _rules[Len(_rules)] = RegenerateRule
        /\ (find_dirs # {}) <=> (depfile # None)
        /\ (find_dirs # {}) <=>
              (\E i \in 1..Len(_includes) : _includes[i] = DepfileInclude)

\* C14, amended: the step appends that one rule unless a rule already has
\* the build file as a target, and then rule() raises ValueError and no rule
\* is added; either way the dependency file is written (the build file
\* depending on every scanned directory, each directory a target of its
\* own) and included exactly if find_dirs is not empty
C14_RegenerateRule ==
    [][last'.op = "regenerate" =>
         /\ IF MakefileName \in _targets
            THEN last'.err = "ValueError" /\ _rules' = _rules
            ELSE last'.err = "none" /\ _rules' = Append(_rules, RegenerateRule)
         /\ IF find_dirs = {}
            THEN depfile' = None /\ _includes' = _includes
            ELSE /\ depfile' # None
                 /\ _includes' = Append(_includes, DepfileInclude)
         /\ (find_dirs = {<<"s">>}) =>
               depfile'.s = MakefileName
                            \o <<":", " ", "/", "w", "/", "s", NL,
                                 "/", "w", "/", "s", ":", NL>>
         /\ \E n \in _var_table' :
               n.name = upper(bfg9000.command_var)]_vars

C14_Witness ==
    /\ last.op = "regenerate"
    /\ last.err = "none"
    /\ Cardinality(find_dirs) = 2
    /\ depfile # None
    /\ Len(_rules) = 2
    /\ _rules[2] = RegenerateRule
    /\ _includes = <<DepfileInclude>>

----------------------------------------------------------------------------
(* Environment: the compilers and linkers of a platform *)

Modes == {"executable", "static_library", "shared_library"}
PlatformNames == {"windows", "linux"}

\* a linker object: its class and the mode it was constructed with; one
\* construction is one object
LinkerObject(cls, mode) == [cls |-> cls, mode |-> mode]

\* Environment.__init_compilers: self.__linkers
linkers(platform) ==
    IF platform = "windows"
    THEN [mode \in Modes |->
            [lang \in {"c", "c++"} |->
                IF mode = "static_library"
                THEN LinkerObject("MSVCStaticLinker", "static_library")
                ELSE LinkerObject("MSVCLinker", mode)]]
    ELSE [mode \in Modes |->
            [lang \in {"c", "c++"} |->
                IF mode = "static_library"
                THEN LinkerObject("ArLinker", "static_library")
                ELSE LinkerObject(IF lang = "c" THEN "CcLinker" ELSE "CxxLinker",
                                  mode)]]

\* a language name, as a python string
LangName(s) == [k |-> "str", s |-> s]
\* a python list, and a python set, of language names
LangList(items) == [k |-> "list", items |-> items]
LangSet(items) == [k |-> "set", items |-> items]

\* set(lang)
set(lang) ==
    IF lang.k = "set" THEN lang.items
    ELSE {lang.items[i] : i \in 1..Len(lang.items)}

\* Environment.linker(lang, mode): [err, ret]
MutLinkerFirstLang(platform, lang, mode) ==
    IF lang.k = "str" \/ (lang.k = "list" /\ lang.items # <<>>)
    THEN LET l == IF lang.k = "str" THEN lang.s ELSE lang.items[1]
         IN  IF l \in DOMAIN linkers(platform)[mode]
             THEN [err |-> "none", ret |-> linkers(platform)[mode][l]]
             ELSE [err |-> "KeyError", ret |-> None]
    ELSE [err |-> "none", ret |-> linkers(platform)[mode]["c"]]

Environment_linker(platform, lang, mode) ==
    IF lang.k = "str"
    THEN IF lang.s \in DOMAIN linkers(platform)[mode]
         THEN [err |-> "none", ret |-> linkers(platform)[mode][lang.s]]
         ELSE [err |-> "KeyError", ret |-> None]
    ELSE IF "c++" \in set(lang)
         THEN [err |-> "none", ret |-> linkers(platform)[mode]["c++"]]
         ELSE [err |-> "none", ret |-> linkers(platform)[mode]["c"]]

\* MsvcLinker.__allowed_langs
allowed_langs == ("c" :> {"c"}) @@ ("c++" :> {"c", "c++"})

\* a linker of the msvc tools: its class, the language it was made for and
\* its builder's object_format
MsvcTool(cls, lang, object_format) ==
    [cls |-> cls, lang |-> lang, object_format |-> object_format]

\* MsvcLinker.can_link(format, langs): [err, ret]
MutCanLinkAnyAllowed(self, format, langs) ==
    IF format # self.object_format THEN [err |-> "none", ret |-> FALSE]
    ELSE IF self.lang \notin DOMAIN allowed_langs
    THEN [err |-> "KeyError", ret |-> None]
    ELSE [err |-> "none",
          ret |-> set(langs) \cap allowed_langs[self.lang] # {}]

MsvcLinker_can_link(self, format, langs) ==
    IF format # self.object_format THEN [err |-> "none", ret |-> FALSE]
    ELSE IF self.lang \notin DOMAIN allowed_langs
    THEN [err |-> "KeyError", ret |-> None]
    ELSE [err |-> "none",
          ret |-> set(langs) \subseteq allowed_langs[self.lang]]

\* MsvcStaticLinker.can_link(format, langs)
MsvcStaticLinker_can_link(self, format, langs) ==
    [err |-> "none", ret |-> format = self.object_format]

\* can_link of the linker's class
can_link(self, format, langs) ==
    IF self.cls = "MsvcStaticLinker"
    THEN MsvcStaticLinker_can_link(self, format, langs)
    ELSE MsvcLinker_can_link(self, format, langs)

\* a file object named from another one: Node.__eq__ tells files apart by
\* type and path
Ref(file) == [cls |-> file.cls, path |-> file.path]

\* LinkedBinary.__init__ below Binary.__init__
LinkedBinary(cls, path, format, lang) ==
    [cls |-> cls, path |-> path, format |-> format, lang |-> lang,
     runtime_deps |-> <<>>, linktime_deps |-> <<>>, package_deps |-> <<>>]

\* LinkLibrary.__init__(path, library)
MutLinkLibraryNoDeps(path, library) ==
    [cls |-> "LinkLibrary", path |-> path, format |-> library.format,
     lang |-> library.lang, runtime_deps |-> <<>>, linktime_deps |-> <<>>,
     package_deps |-> <<>>, library |-> Ref(library)]

LinkLibrary(path, library) ==
    [LinkedBinary("LinkLibrary", path, library.format, library.lang)
        EXCEPT !.linktime_deps = <<Ref(library)>>]
    @@ [library |-> Ref(library)]

\* ExportFile(path)
ExportFile(path) == [cls |-> "ExportFile", path |-> path]

\* DllBinary.__init__(path, format, lang, import_name, export_name)
DllBinary(path, format, lang, import_name, export_name) ==
    LinkedBinary("DllBinary", path, format, lang)
    @@ [import_lib |->
            LinkLibrary(import_name,
                        LinkedBinary("DllBinary", path, format, lang)),
        export_file |->
            IF export_name # None THEN ExportFile(export_name) ELSE None]

\* the runtime_file property of Library, SharedLibrary and LinkLibrary
runtime_file(file) ==
    CASE file.cls = "LinkLibrary" -> file.library
      [] file.cls = "SharedLibrary" -> Ref(file)
      [] OTHER -> None

\* Path(name)
Path(name) == PathValue("builddir", name)

\* MsvcSharedLibraryLinker.output_file(name, context), ext being
\* env.platform.shared_library_ext
output_file(self, name, ext) ==
    LET dll == DllBinary(Path(name \o ext), self.object_format, self.lang,
                         Path(name \o <<".", "l", "i", "b">>),
                         Path(name \o <<".", "e", "x", "p">>))
    IN  <<dll, dll.import_lib, dll.export_file>>

\* the languages a project names
LangNames == {"c", "c++", "objc"}

LinkerArgs ==
    {[fn |-> "linker", platform |-> p, lang |-> l, mode |-> mode] :
        p \in PlatformNames, mode \in Modes,
        l \in {LangName(n) : n \in LangNames}
              \cup {LangSet(S) : S \in SUBSET LangNames}
              \cup {LangList(t) : t \in Texts(LangNames, MaxLen)}}

\* env.platform.object_format, and the formats of the files to link
ObjectFormats == {"coff", "elf"}

LangCollections ==
    {LangSet(S) : S \in SUBSET LangNames}
    \cup {LangList(t) : t \in Texts(LangNames, MaxLen)}

CanLinkArgs ==
    {[fn |-> "can_link", self |-> MsvcTool(cls, l, of), format |-> f,
      langs |-> c] :
        cls \in {"MsvcExecutableLinker", "MsvcSharedLibraryLinker",
                 "MsvcStaticLinker"},
        l \in LangNames, of \in ObjectFormats,
        f \in ObjectFormats \cup {"mach-o"}, c \in LangCollections}

\* the text ends in the given text
EndsWith(s, suffix) ==
    /\ Len(suffix) <= Len(s)
    /\ SubSeq(s, Len(s) - Len(suffix) + 1, Len(s)) = suffix

\* Python's test  sub in s  on strings
Within(sub, s) ==
    \E i \in 1..(Len(s) - Len(sub) + 1) :
        SubSeq(s, i, i + Len(sub) - 1) = sub

\* re.search(r'cl(\.exe)?$', cmd) for a command without a newline
MutSearchClNever(cmd) == FALSE

re_search_cl(cmd) ==
    EndsWith(cmd, <<"c", "l">>) \/ EndsWith(cmd, <<"c", "l", ".", "e", "x", "e">>)

\* CFamilyBuilder.__langs: the variable and the default command of a language
CFamilyBuilder_langs ==
    ("c" :> [var |-> "CC", default_cmd |-> <<"c", "c">>])
    @@ ("c++" :> [var |-> "CXX", default_cmd |-> <<"c", "+", "+">>])
    @@ ("objc" :> [var |-> "OBJC", default_cmd |-> <<"c", "c">>])
    @@ ("objc++" :> [var |-> "OBJCXX", default_cmd |-> <<"c", "+", "+">>])

\* env.getvar(var, default)
getvar(env, name, default) ==
    IF name \in DOMAIN env.variables THEN env.variables[name] ELSE default

\* CFamilyBuilder.__init__(env, lang), every command being found by
\* check_which: the classes of the compiler, the linkers and the package
\* resolver it builds
CFamilyBuilder(env, lang) ==
    LET var_ == CFamilyBuilder_langs[lang].var
        default_cmd ==
            IF env.platform.name = "windows" /\ lang \in {"c", "c++"}
            THEN <<"c", "l">>
            ELSE CFamilyBuilder_langs[lang].default_cmd
        cmd == getvar(env, var_, default_cmd)
    IN  IF re_search_cl(cmd)
        THEN [lang |-> lang, cmd |-> cmd, compiler |-> "MsvcCompiler",
              linkers |-> [executable |-> "MsvcExecutableLinker",
                           shared_library |-> "MsvcSharedLibraryLinker",
                           static_library |-> "MsvcStaticLinker"],
              packages |-> "MsvcPackageResolver"]
        ELSE [lang |-> lang, cmd |-> cmd, compiler |-> "CcCompiler",
              linkers |-> [executable |-> "CcExecutableLinker",
                           shared_library |-> "CcSharedLibraryLinker",
                           static_library |-> "ArLinker"],
              packages |-> "CcPackageResolver"]

\* the brand MsvcBuilder.__init__ reads off the output of the probe
MsvcBuilder_brand(version_output) ==
    IF Within(<<"M", "i", "c", "r", "o", "s", "o", "f", "t", " ", "(", "R", ")">>, version_output) THEN "msvc" ELSE "unknown"

\* what the probe of a compiler prints: Microsoft's banner, GNU's, nothing
MicrosoftBanner == <<"M", "i", "c", "r", "o", "s", "o", "f", "t", " ", "(", "R", ")", " ", "C">>
GnuBanner == <<"g", "c", "c", " ", "(", "G", "N", "U", ")">>
Banners == {MicrosoftBanner, GnuBanner, <<>>}

\* command names given in CC, CXX or OBJC
Commands == {<<"c", "l">>, <<"c", "l", ".", "e", "x", "e">>, <<"c", "c">>, <<"c", "+", "+">>, <<"g", "c", "l">>, <<"c", "l", "a", "n", "g">>}

\* what the language's variable holds: nothing when unset, else one command
Settings == {<<>>} \cup {<<c>> : c \in Commands}

\* the environment of a platform with the language's variable set or unset
BuilderEnv(platform, lang, setting) ==
    [platform |-> [name |-> platform],
     variables |-> [n \in {CFamilyBuilder_langs[lang].var : i \in 1..Len(setting)}
                        |-> setting[1]]]

\* two resolutions on one platform for one language whose probes print the
\* same banner
BuilderArgs ==
    {[fn |-> "builder", platform |-> p, lang |-> l, cmds |-> <<c1, c2>>,
      banner |-> b] :
        p \in {"windows", "linux"}, l \in LangNames,
        c1 \in Settings, c2 \in Settings, b \in Banners}

\* a call that returned a value, and one that raised an exception
Returned(ret) == [err |-> "none", msg |-> <<>>, ret |-> ret]
Raised(err, msg) == [err |-> err, msg |-> msg, ret |-> None]

\* a list comprehension over calls: the first exception raised, else the
\* list of the values
Each(outcomes) ==
    IF \E i \in 1..Len(outcomes) : outcomes[i].err # "none"
    THEN outcomes[CHOOSE i \in 1..Len(outcomes) :
                      /\ outcomes[i].err # "none"
                      /\ \A j \in 1..(i - 1) : outcomes[j].err = "none"]
    ELSE Returned([i \in 1..Len(outcomes) |-> outcomes[i].ret])

\* os.path.join(base, name) of a directory and a file name; fs, the files
\* that exist, holds such pairs
os_path_join(base, name) == <<base, name>>

\* HeaderDirectory(Path(base, Root.absolute), None, system=True,
\* external=True)
HeaderDirectory(base) ==
    [cls |-> "HeaderDirectory", path |-> PathValue("absolute", base.s),
     system |-> TRUE]

\* Library(Path(fullpath, Root.absolute), format, external=True)
Library(fullpath, format) ==
    [cls |-> "Library", path |-> fullpath, format |-> format]

\* the directory the search stops at: the first of search_dirs holding name
FirstHit(search_dirs, name, fs) ==
    CHOOSE i \in 1..Len(search_dirs) :
        /\ os_path_join(search_dirs[i], name) \in fs
        /\ \A j \in 1..(i - 1) : os_path_join(search_dirs[j], name) \notin fs

\* MsvcPackageResolver.header(name, search_dirs)
MsvcPackageResolver_header(self, name, search_dirs, fs) ==
    LET dirs == IF search_dirs = None THEN self.include_dirs
                ELSE search_dirs.items
    IN  IF \E i \in 1..Len(dirs) : os_path_join(dirs[i], name) \in fs
        THEN Returned(HeaderDirectory(dirs[FirstHit(dirs, name, fs)]))
        ELSE Raised("PackageResolutionError",
                    <<"unable to find header", name>>)

\* MsvcPackageResolver.library(name, kind, search_dirs)
MsvcPackageResolver_library(self, name, kind, search_dirs, fs) ==
    LET dirs == IF search_dirs = None THEN self.lib_dirs
                ELSE search_dirs.items
        libname == Str(name.s \o <<".lib">>)
    IN  IF \E i \in 1..Len(dirs) : os_path_join(dirs[i], libname) \in fs
        THEN Returned(Library(
                 os_path_join(dirs[FirstHit(dirs, libname, fs)], libname),
                 self.object_format))
        ELSE Raised("PackageResolutionError",
                    <<"unable to find library", name>>)

\* the default of lib_names
default_sentinel == [k |-> "default_sentinel"]

\* env.platform.transform_package(name)
transform_package(name) == name

\* CommonPackage(name, format, includes=includes, libs=libs)
CommonPackage(name, format, includes, libs) ==
    [cls |-> "CommonPackage", name |-> name, format |-> format,
     includes |-> includes, libs |-> libs]

\* what pkg_config.resolve(env, name, format, version, kind) ends in
PkgConfigOutcomes == {"found", "OSError", "PackageResolutionError"}

pkg_config_resolve(name, format, pkgconfig) ==
    IF pkgconfig = "found"
    THEN Returned([cls |-> "PkgConfigPackage", name |-> name,
                   format |-> format])
    ELSE Raised(pkgconfig, <<"pkg-config", name>>)

\* MsvcPackageResolver.resolve(name, version, kind, headers, lib_names);
\* caught lists the exceptions its except clause took
MsvcPackageResolver_resolve(self, name, kind, headers, lib_names, pkgconfig, fs) ==
    IF pkg_config_resolve(name, self.object_format, pkgconfig).err = "none"
    THEN pkg_config_resolve(name, self.object_format, pkgconfig)
         @@ [caught |-> <<>>]
    ELSE LET names == IF lib_names = default_sentinel
                      THEN transform_package(name) ELSE lib_names
             includes ==
                 Each([i \in 1..Len(listify(headers)) |->
                          MsvcPackageResolver_header(
                              self, listify(headers)[i], None, fs)])
             libs ==
                 Each([i \in 1..Len(listify(names)) |->
                          MsvcPackageResolver_library(
                              self, listify(names)[i], kind, None, fs)])
         IN  (IF includes.err # "none" THEN includes
              ELSE IF libs.err # "none" THEN libs
              ELSE Returned(CommonPackage(name, self.object_format,
                                          includes.ret, libs.ret)))
             @@ [caught |->
                     <<pkg_config_resolve(name, self.object_format,
                                          pkgconfig).err>>]

\* the resolver of a C++ builder for the coff format with two include
\* directories and one library directory
ResolverSelf ==
    [lang |-> "c++", object_format |-> "coff",
     include_dirs |-> <<Str(<<"inc1">>), Str(<<"inc2">>)>>,
     lib_dirs |-> <<Str(<<"lib">>)>>]

\* files that may exist below the resolver's directories
ResolveFiles ==
    {os_path_join(Str(<<"inc1">>), Str(<<"h">>)),
     os_path_join(Str(<<"inc2">>), Str(<<"h">>)),
     os_path_join(Str(<<"inc2">>), Str(<<"g">>)),
     os_path_join(Str(<<"lib">>), Str(<<"l", ".lib">>)),
     os_path_join(Str(<<"lib">>), Str(<<"p", ".lib">>))}

ResolveArgs ==
    {[fn |-> "resolve", self |-> ResolverSelf, name |-> Str(<<"p">>),
      kind |-> "any", headers |-> h, lib_names |-> l, pkgconfig |-> pc,
      fs |-> fs] :
        h \in {None, Str(<<"h">>), List(<<Str(<<"h">>), Str(<<"g">>)>>)},
        l \in {default_sentinel, None, Str(<<"l">>)},
        pc \in PkgConfigOutcomes, fs \in SUBSET ResolveFiles}

\* find(r'C:\Boost\include', 'boost-*', type='d', flat=True) for the
\* versions installed, and max() of it
BoostDir(n) ==
    Str(<<"C:\\Boost\\include", IF n = 1 THEN "boost-1" ELSE "boost-2">>)

max_dirs(versions) ==
    BoostDir(CHOOSE n \in versions : \A m \in versions : m <= n)

\* BoostPackage(name, format, version, compile_options, link_options)
BoostPackage(name, format, compile_options, link_options) ==
    [cls |-> "BoostPackage", name |-> name, format |-> format,
     compile_options |-> compile_options, link_options |-> link_options]

\* boost_package from the library lookup on: lines 104-133
boost_package_link(env, name, libdir, header, caught, fs) ==
    IF env.platform.name = "windows"
    THEN IF ~env.auto_link
         THEN Raised("PackageResolutionError",
                     <<"Boost on Windows requires auto-link">>)
              @@ [caught |-> caught]
         ELSE Returned(BoostPackage(name, env.object_format, <<header>>,
                           IF libdir # None THEN <<libdir>> ELSE <<>>))
              @@ [caught |-> caught]
    ELSE LET libs ==
                 Each([i \in 1..Len(listify(name)) |->
                          MsvcPackageResolver_library(
                              env.packages,
                              Str(<<"boost_">> \o listify(name)[i].s),
                              "any",
                              IF libdir # None THEN List(<<libdir>>)
                              ELSE None,
                              fs)])
         IN  (IF libs.err # "none" THEN libs
              ELSE Returned(BoostPackage(name, env.object_format,
                                         <<header>>, libs.ret)))
             @@ [caught |-> caught]

\* boost_package after the header lookup h
boost_package_found(env, name, libdir, h, caught, fs) ==
    IF h.err # "none" THEN h @@ [caught |-> caught]
    ELSE boost_package_link(env, name, libdir, h.ret, caught, fs)

\* boost_package(env, name, version), boost/version.hpp being readable
\* wherever it is found; versions are the directories find() lists below
\* C:\Boost\include, caught the exceptions its except clause took
boost_package(env, name, versions, fs) ==
    LET version_hpp == Str(<<"boost/version.hpp">>)
        root == getvar(env, "BOOST_ROOT", None)
        incdir == getvar(env, "BOOST_INCLUDEDIR",
                         IF root # None THEN Str(root.s \o <<"include">>)
                         ELSE None)
        libdir == getvar(env, "BOOST_LIBRARYDIR",
                         IF root # None THEN Str(root.s \o <<"lib">>)
                         ELSE None)
    IN  IF incdir # None
        THEN boost_package_found(
                 env, name, libdir,
                 MsvcPackageResolver_header(env.packages, version_hpp,
                                            List(<<incdir>>), fs),
                 <<>>, fs)
        ELSE IF env.platform.name = "windows" /\ versions # {}
        THEN IF MsvcPackageResolver_header(
                    env.packages, version_hpp,
                    List(<<max_dirs(versions)>>), fs).err = "none"
             THEN Returned(BoostPackage(
                      name, env.object_format,
                      <<MsvcPackageResolver_header(
                            env.packages, version_hpp,
                            List(<<max_dirs(versions)>>), fs).ret>>,
                      <<Str(<<"C:\\Boost\\lib">>)>>))
                  @@ [caught |-> <<>>]
             ELSE boost_package_found(
                      env, name, libdir,
                      MsvcPackageResolver_header(env.packages, version_hpp,
                                                 None, fs),
                      <<"PackageResolutionError">>, fs)
        ELSE boost_package_found(
                 env, name, libdir,
                 MsvcPackageResolver_header(env.packages, version_hpp,
                                            None, fs),
                 <<>>, fs)

\* directories that may hold boost/version.hpp, and boost libraries that
\* may exist
BoostFiles ==
    {os_path_join(d, Str(<<"boost/version.hpp">>)) :
        d \in {Str(<<"I">>), Str(<<"r", "include">>), BoostDir(2),
               Str(<<"inc1">>)}}
    \cup {os_path_join(d, Str(<<"boost_", "thread", ".lib">>)) :
            d \in {Str(<<"lib">>), Str(<<"r", "lib">>)}}

\* the environment boost_package reads: the platform, the BOOST_ variables
\* that are set, the C++ builder's auto_link, object format and resolver
BoostEnv(platform, names, auto_link) ==
    [platform |-> [name |-> platform],
     variables |-> [n \in names |-> IF n = "BOOST_ROOT" THEN Str(<<"r">>)
                                  ELSE Str(<<"I">>)],
     auto_link |-> auto_link, object_format |-> "coff",
     packages |-> ResolverSelf]

BoostArgs ==
    {[fn |-> "boost_package", env |-> BoostEnv(p, ns, al), name |-> n,
      versions |-> v, fs |-> fs] :
        p \in {"windows", "linux"},
        ns \in SUBSET {"BOOST_ROOT", "BOOST_INCLUDEDIR"},
        al \in BOOLEAN, n \in {None, Str(<<"thread">>)},
        v \in SUBSET {1, 2}, fs \in SUBSET BoostFiles}

\* FindResult(IntEnum)
FindResult == [include |-> 0, not_now |-> 1, exclude |-> 2]

FindResults == {FindResult.include, FindResult.not_now, FindResult.exclude}

\* int.__and__ and int.__or__, which an IntEnum inherits
RECURSIVE int_and(_, _)
int_and(a, b) ==
    IF a = 0 \/ b = 0 THEN 0
    ELSE (a % 2) * (b % 2) + 2 * int_and(a \div 2, b \div 2)

RECURSIVE int_or(_, _)
int_or(a, b) ==
    IF a = 0 THEN b
    ELSE IF b = 0 THEN a
    ELSE (IF a % 2 = 1 \/ b % 2 = 1 THEN 1 ELSE 0)
         + 2 * int_or(a \div 2, b \div 2)

\* int.__bool__
int_bool(a) == a # 0

\* max(a, b) of two IntEnum members
max(a, b) == IF b > a THEN b ELSE a

\* re.compile(fnmatch.translate(pat)).match(name) for patterns of literal
\* characters, ? and *
RECURSIVE fnmatch(_, _)
fnmatch(name, pat) ==
    IF pat = <<>> THEN name = <<>>
    ELSE IF Head(pat) = "*"
    THEN \/ fnmatch(name, Tail(pat))
         \/ name # <<>> /\ fnmatch(Tail(name), pat)
    ELSE /\ name # <<>>
         /\ Head(pat) = "?" \/ Head(pat) = Head(name)
         /\ fnmatch(Tail(name), Tail(pat))

\* the filter _filter_from_glob(match_type, match_names, match_extra)
\* returns, applied to (name, path, type)
filter_from_glob(match_type, match_names, match_extra, name, type) ==
    IF match_type \in {type, "*"}
    THEN IF \E i \in 1..Len(listify(match_names)) :
                fnmatch(name, listify(match_names)[i].s)
         THEN FindResult.include
         ELSE IF \E i \in 1..Len(listify(match_extra)) :
                    fnmatch(name, listify(match_extra)[i].s)
         THEN FindResult.not_now
         ELSE FindResult.exclude
    ELSE FindResult.exclude

\* final_filter of find_files: filter holds what the given filter returns
\* for the path, and is empty for a false filter argument
MutFinalFilterGlobOnly(filter, glob) == glob

final_filter(filter, glob) ==
    IF filter # <<>> THEN max(filter[1], glob) ELSE glob

\* operations on two FindResult members
FindResultArgs ==
    {[fn |-> "find_result", op |-> op, a |-> a, b |-> b] :
        op \in {"and", "or", "bool"}, a \in FindResults, b \in FindResults}

\* names and glob patterns the filters are tried on
FindNames == {<<"a">>, <<"b">>, <<"a", "b">>}
FindPatterns ==
    {Str(<<"*">>), Str(<<"a">>), List(<<Str(<<"a">>), Str(<<"b", "*">>)>>)}

FinalFilterArgs ==
    {[fn |-> "final_filter", filter |-> f, match_type |-> mt,
      match_names |-> mn, match_extra |-> me, name |-> n, type |-> t] :
        f \in {<<>>} \cup {<<r>> : r \in FindResults},
        mt \in {"*", "f", "d"}, mn \in FindPatterns,
        me \in {None, Str(<<"*">>), Str(<<"?", "b">>)},
        n \in FindNames, t \in {"f", "d"}}

\* var + '_LINK' and var + '_LIB' for the variables of __langs
var_LINK(name) ==
    CASE name = "CC" -> "CC_LINK"
      [] name = "CXX" -> "CXX_LINK"
      [] name = "OBJC" -> "OBJC_LINK"
      [] OTHER -> "OBJCXX_LINK"

var_LIB(name) ==
    CASE name = "CC" -> "CC_LIB"
      [] name = "CXX" -> "CXX_LIB"
      [] name = "OBJC" -> "OBJC_LIB"
      [] OTHER -> "OBJCXX_LIB"

\* os.path.dirname(cmd) and os.path.join(origin, name)
RECURSIVE os_path_dirname(_)
os_path_dirname(cmd) ==
    IF cmd = <<>> THEN <<>>
    ELSE IF cmd[Len(cmd)] = "/" THEN SubSeq(cmd, 1, Len(cmd) - 1)
    ELSE os_path_dirname(SubSeq(cmd, 1, Len(cmd) - 1))

os_path_join_cmd(origin, name) ==
    IF origin = <<>> THEN name ELSE origin \o <<"/">> \o name

\* check_which(cmd, kind): the error of a command that is not among the
\* ones installed
check_which(cmd, installed) ==
    IF cmd \in installed THEN "none" ELSE "IOError"

\* CFamilyBuilder(env, lang) as a call that may fail: the error raised, the
\* builder if there is one, and the commands looked up, in order
MutBuilderSkipsLinkLookup(env, lang, installed) ==
    [err |-> check_which(CFamilyBuilder(env, lang).cmd, installed),
     builder |-> IF CFamilyBuilder(env, lang).cmd \in installed
                 THEN CFamilyBuilder(env, lang) ELSE None,
     lookups |-> <<CFamilyBuilder(env, lang).cmd>>]

CFamilyBuilder_init(env, lang, installed) ==
    LET cmd_ == CFamilyBuilder(env, lang).cmd
        origin == os_path_dirname(cmd_)
        link_cmd == getvar(env, var_LINK(CFamilyBuilder_langs[lang].var),
                           os_path_join_cmd(origin, <<"l", "i", "n", "k">>))
        lib_cmd == getvar(env, var_LIB(CFamilyBuilder_langs[lang].var),
                          os_path_join_cmd(origin, <<"l", "i", "b">>))
    IN  IF check_which(cmd_, installed) # "none"
        THEN [err |-> check_which(cmd_, installed), builder |-> None,
              lookups |-> <<cmd_>>]
        ELSE IF ~re_search_cl(cmd_)
        THEN [err |-> "none", builder |-> CFamilyBuilder(env, lang),
              lookups |-> <<cmd_>>]
        ELSE IF check_which(link_cmd, installed) # "none"
        THEN [err |-> check_which(link_cmd, installed), builder |-> None,
              lookups |-> <<cmd_, link_cmd>>]
        ELSE IF check_which(lib_cmd, installed) # "none"
        THEN [err |-> check_which(lib_cmd, installed), builder |-> None,
              lookups |-> <<cmd_, link_cmd, lib_cmd>>]
        ELSE [err |-> "none", builder |-> CFamilyBuilder(env, lang),
              lookups |-> <<cmd_, link_cmd, lib_cmd>>]

\* the commands that may be installed
Installable ==
    {<<"c", "l">>, <<"d", "/", "c", "l">>, <<"c", "c">>,
     <<"l", "i", "n", "k">>, <<"d", "/", "l", "i", "n", "k">>,
     <<"l", "i", "b">>, <<"d", "/", "l", "i", "b">>, <<"x">>}

\* the environment of a construction: the compiler and the linker variable
\* of the language, each set or unset
ConstructEnv(platform, lang, compiler, linker) ==
    [platform |-> [name |-> platform],
     variables |->
        [n \in {CFamilyBuilder_langs[lang].var : i \in 1..Len(compiler)}
               \cup {var_LINK(CFamilyBuilder_langs[lang].var) :
                        i \in 1..Len(linker)}
            |-> IF n = CFamilyBuilder_langs[lang].var THEN compiler[1]
                ELSE linker[1]]]

ConstructArgs ==
    {[fn |-> "construct", env |-> ConstructEnv(p, l, c, k), lang |-> l,
      installed |-> w] :
        p \in {"windows", "linux"}, l \in {"c", "objc"},
        c \in {<<>>, <<<<"d", "/", "c", "l">>>>, <<<<"c", "c">>>>},
        k \in {<<>>, <<<<"x">>>>}, w \in SUBSET Installable}

\* num_outputs of the MSVC compilers and linkers that declare it
num_outputs(cls) ==
    CASE cls = "MsvcPchCompiler" -> 2
      [] cls = "MsvcSharedLibraryLinker" -> 2
      [] OTHER -> 1

\* the position of the last "." of a path, 0 if it has none
RECURSIVE LastDot(_)
LastDot(path) ==
    IF path = <<>> THEN 0
    ELSE IF path[Len(path)] = "." THEN Len(path)
    ELSE LastDot(SubSeq(path, 1, Len(path) - 1))

\* Path.stripext(replace): the extension, if any, gives way to the new one
stripext(path, replace) ==
    (IF LastDot(path) <= 1 THEN path ELSE SubSeq(path, 1, LastDot(path) - 1))
    \o replace

\* env.platform.executable_ext on Windows
ExeExt == <<".", "e", "x", "e">>

\* output_file(name, context) of an MSVC tool, as the paths of the files it
\* returns, a single file counting as a list of one; pch_source is
\* context.pch_source.path
outputs(self, name, pch_source) ==
    CASE self.cls = "MsvcCompiler" -> <<name \o <<".", "o", "b", "j">>>>
      [] self.cls = "MsvcPchCompiler" ->
            <<stripext(name, <<".", "p", "c", "h">>),
              stripext(pch_source, <<".", "o", "b", "j">>)>>
      [] self.cls = "MsvcExecutableLinker" -> <<name \o ExeExt>>
      [] OTHER ->
            [i \in 1..Len(output_file(self, name, <<".", "d", "l", "l">>)) |->
                output_file(self, name, <<".", "d", "l", "l">>)[i].path.suffix]

\* the _always_flags property
_always_flags(cls) ==
    CASE cls \in {"MsvcCompiler", "MsvcPchCompiler"} ->
            <<<<"/nologo">>, <<"/EHsc">>>>
      [] cls = "MsvcSharedLibraryLinker" -> <<<<"/nologo">>, <<"/DLL">>>>
      [] OTHER -> <<<<"/nologo">>>>

\* MsvcBaseCompiler._call
MsvcBaseCompiler_call(cls, cmd_, input, output, deps, flags) ==
    cmd_ \o _always_flags(cls) \o flags
    \o (IF deps THEN <<<<"/showIncludes">>>> ELSE <<>>)
    \o <<<<"/c">>, input>>
    \o <<<<"/Fo">> \o output>>

\* MsvcPchCompiler._call
MsvcPchCompiler_call(cls, cmd_, input, output, deps, flags) ==
    Append(MsvcBaseCompiler_call(cls, cmd_, input, output[2], deps, flags),
           <<"/Fp">> \o output[1])

\* MsvcLinker._call
MsvcLinker_call(cls, cmd_, input, output, libs, flags) ==
    cmd_ \o _always_flags(cls) \o flags \o input \o libs
    \o <<<<"/OUT:">> \o output>>

MutSharedCallNoImplib(cls, cmd_, input, output, libs, flags) ==
    MsvcLinker_call(cls, cmd_, input, output[1], libs, flags)

\* MsvcSharedLibraryLinker._call
MsvcSharedLibraryLinker_call(cls, cmd_, input, output, libs, flags) ==
    Append(MsvcLinker_call(cls, cmd_, input, output[1], libs, flags),
           <<"/IMPLIB:">> \o output[2])

\* what the rule of a build hands to _call as output: the one output of a
\* tool of one output, the first num_outputs of the others
handed(cls, outs) ==
    IF num_outputs(cls) = 1 THEN outs[1] ELSE SubSeq(outs, 1, num_outputs(cls))

\* tool(cmd, input, output, ...) of an MSVC tool: the command line
_call(cls, cmd_, input, output, extra, flags) ==
    CASE cls = "MsvcCompiler" ->
            MsvcBaseCompiler_call(cls, cmd_, input, output, extra # <<>>, flags)
      [] cls = "MsvcPchCompiler" ->
            MsvcPchCompiler_call(cls, cmd_, input, output, extra # <<>>, flags)
      [] cls = "MsvcExecutableLinker" ->
            MsvcLinker_call(cls, cmd_, <<input>>, output, extra, flags)
      [] OTHER ->
            MsvcSharedLibraryLinker_call(cls, cmd_, <<input>>, output, extra,
                                         flags)

\* the tools that declare num_outputs, and the calls made on them
NumOutputsTools ==
    {"MsvcCompiler", "MsvcPchCompiler", "MsvcExecutableLinker",
     "MsvcSharedLibraryLinker"}

RenderArgs ==
    {[fn |-> "render", self |-> MsvcTool(cls, "c++", "coff"), name |-> n,
      pch_source |-> <<"s", ".", "c">>, extra |-> e, flags |-> f] :
        cls \in NumOutputsTools, n \in Texts({"l", "."}, MaxLen),
        e \in {<<>>, <<<<"d">>>>}, f \in {<<>>, <<<<"/O2">>>>}}

\* output_file(name, context), then the command that builds what it returned
DoRender ==
    /\ arg.fn = "render"
    /\ res = None
    /\ res' = [k |-> "rendered",
               outputs |-> outputs(arg.self, arg.name, arg.pch_source),
               command |-> _call(arg.self.cls, <<<<"c", "l">>>>,
                                 <<"i", ".", "x">>,
                                 handed(arg.self.cls,
                                        outputs(arg.self, arg.name,
                                                arg.pch_source)),
                                 arg.extra, arg.flags)]
    /\ UNCHANGED <<family, arg>>
    /\ UNCHANGED mfvars

\* env.platform.shared_library_ext where import libraries are needed
DllExt == <<".", "d", "l", "l">>

OutputFileArgs ==
    {[fn |-> "output_file",
      self |-> MsvcTool("MsvcSharedLibraryLinker", l, of), name |-> n] :
        l \in LangNames, of \in ObjectFormats,
        n \in Texts({"l", "."}, MaxLen)}

ToolsArgs == LinkerArgs \cup CanLinkArgs \cup OutputFileArgs \cup BuilderArgs
    \cup ResolveArgs \cup BoostArgs
    \cup FindResultArgs \cup FinalFilterArgs \cup ConstructArgs
    \cup RenderArgs

ToolsInit ==
    /\ Idle
    /\ family = "posix"
    /\ res = None
    /\ arg \in ToolsArgs

DoLinker ==
    /\ arg.fn = "linker"
    /\ res = None
    /\ res' = Environment_linker(arg.platform, arg.lang, arg.mode)
    /\ UNCHANGED <<family, arg>>
    /\ UNCHANGED mfvars

DoCanLink ==
    /\ arg.fn = "can_link"
    /\ res = None
    /\ res' = can_link(arg.self, arg.format, arg.langs)
    /\ UNCHANGED <<family, arg>>
    /\ UNCHANGED mfvars

DoOutputFile ==
    /\ arg.fn = "output_file"
    /\ res = None
    /\ res' = output_file(arg.self, arg.name, DllExt)
    /\ UNCHANGED <<family, arg>>
    /\ UNCHANGED mfvars

\* one resolution of the builder of arg.lang, the first command first; an
\* MSVC builder carries the brand read off the probe's output
Resolved(builder, version_output) ==
    IF builder.compiler = "MsvcCompiler"
    THEN builder @@ [brand |-> MsvcBuilder_brand(version_output)]
    ELSE builder

DoBuilder ==
    /\ arg.fn = "builder"
    /\ IF res = None THEN TRUE ELSE Len(res.items) < Len(arg.cmds)
    /\ LET done == IF res = None THEN <<>> ELSE res.items
       IN  res' = [k |-> "builders",
                   items |->
                       Append(done,
                           Resolved(CFamilyBuilder(
                                        BuilderEnv(arg.platform, arg.lang,
                                                   arg.cmds[Len(done) + 1]),
                                        arg.lang),
                                    arg.banner))]
    /\ UNCHANGED <<family, arg>>
    /\ UNCHANGED mfvars

DoResolve ==
    /\ arg.fn = "resolve"
    /\ res = None
    /\ res' = MsvcPackageResolver_resolve(arg.self, arg.name, arg.kind,
                                          arg.headers, arg.lib_names,
                                          arg.pkgconfig, arg.fs)
    /\ UNCHANGED <<family, arg>>
    /\ UNCHANGED mfvars

DoBoostPackage ==
    /\ arg.fn = "boost_package"
    /\ res = None
    /\ res' = boost_package(arg.env, arg.name, arg.versions, arg.fs)
    /\ UNCHANGED <<family, arg>>
    /\ UNCHANGED mfvars

DoFindResult ==
    /\ arg.fn = "find_result"
    /\ res = None
    /\ res' = CASE arg.op = "and" ->
                     [k |-> "int", value |-> int_and(arg.a, arg.b)]
                [] arg.op = "or" ->
                     [k |-> "int", value |-> int_or(arg.a, arg.b)]
                [] arg.op = "bool" ->
                     [k |-> "bool", value |-> int_bool(arg.a)]
    /\ UNCHANGED <<family, arg>>
    /\ UNCHANGED mfvars

DoFinalFilter ==
    /\ arg.fn = "final_filter"
    /\ res = None
    /\ res' = [k |-> "FindResult",
               value |-> final_filter(
                             arg.filter,
                             filter_from_glob(arg.match_type,
                                              arg.match_names,
                                              arg.match_extra, arg.name,
                                              arg.type))]
    /\ UNCHANGED <<family, arg>>
    /\ UNCHANGED mfvars

DoConstruct ==
    /\ arg.fn = "construct"
    /\ res = None
    /\ res' = CFamilyBuilder_init(arg.env, arg.lang, arg.installed)
               @@ [k |-> "construction"]
    /\ UNCHANGED <<family, arg>>
    /\ UNCHANGED mfvars

ToolsNext ==
    \/ DoLinker
    \/ DoCanLink
    \/ DoOutputFile
    \/ DoBuilder
    \/ DoResolve
    \/ DoBoostPackage
    \/ DoFindResult
    \/ DoFinalFilter
    \/ DoConstruct
    \/ DoRender

SpecTools == ToolsInit /\ [][ToolsNext]_vars

\* C15: for a collection of languages Environment.linker returns the
\* linker registered for C++ in that mode if "c++" is in the collection and
\* the one registered for C otherwise (where the two are different linkers,
\* the C++ one exactly if "c++" is in the collection); for one language
\* name it returns the linker registered for that name and mode
C15_LinkerChoice ==
    (arg.fn = "linker" /\ res # None) =>
        IF arg.lang.k = "str"
        THEN IF arg.lang.s \in {"c", "c++"}
             THEN res = [err |-> "none",
                         ret |-> linkers(arg.platform)[arg.mode][arg.lang.s]]
             ELSE res.err = "KeyError"
        ELSE /\ res.err = "none"
             /\ res.ret \in {linkers(arg.platform)[arg.mode]["c"],
                             linkers(arg.platform)[arg.mode]["c++"]}
             /\ ("c++" \in set(arg.lang))
                   => res.ret = linkers(arg.platform)[arg.mode]["c++"]
             /\ ("c++" \notin set(arg.lang))
                   => res.ret = linkers(arg.platform)[arg.mode]["c"]
             /\ (arg.platform = "linux" /\ arg.mode # "static_library")
                   => (res.ret.cls = "CxxLinker" <=> "c++" \in set(arg.lang))

C15_Witness ==
    /\ arg.fn = "linker"
    /\ res # None
    /\ arg.lang.k = "list"
    /\ arg.lang.items = <<"c", "objc", "c++">>
    /\ arg.platform = "linux"
    /\ arg.mode = "executable"
    /\ res.ret = LinkerObject("CxxLinker", "executable")

CanLinked == arg.fn = "can_link" /\ res # None

\* C16: can_link of the executable and shared-library linkers of C and of
\* C++ is true exactly if the format is the builder's object format and
\* every language is C (C linker), or C or C++ (C++ linker); can_link of
\* the static linker is true exactly if the format is the builder's
C16_CanLink ==
    CanLinked =>
        IF arg.self.cls = "MsvcStaticLinker"
        THEN res = [err |-> "none",
                    ret |-> arg.format = arg.self.object_format]
        ELSE /\ (arg.self.lang = "c") =>
                   res = [err |-> "none",
                          ret |-> /\ arg.format = arg.self.object_format
                                  /\ \A l \in set(arg.langs) : l = "c"]
             /\ (arg.self.lang = "c++") =>
                   res = [err |-> "none",
                          ret |-> /\ arg.format = arg.self.object_format
                                  /\ \A l \in set(arg.langs) :
                                        l = "c" \/ l = "c++"]
             /\ (arg.self.lang = "c" /\ "c++" \in set(arg.langs))
                   => res.ret = FALSE
             /\ (arg.format # arg.self.object_format) => res.ret = FALSE

C16_Witness ==
    /\ CanLinked
    /\ arg.self = MsvcTool("MsvcExecutableLinker", "c", "coff")
    /\ arg.format = "coff"
    /\ arg.langs = LangSet({"c", "c++"})
    /\ res.ret = FALSE

\* C17: output_file of the shared-library linker returns at least two
\* files, the DLL first and its import library second; the import library
\* has the DLL's object format and language, so that every linker's
\* can_link answers for it as for the DLL, and it names the DLL as its
\* runtime file and as its one link-time dependency
C17_DllAndImportLib ==
    (arg.fn = "output_file" /\ res # None) =>
        /\ Len(res) >= 2
        /\ res[1].cls = "DllBinary"
        /\ res[1].path = Path(arg.name \o DllExt)
        /\ res[1].format = arg.self.object_format
        /\ res[1].lang = arg.self.lang
        /\ res[2] = res[1].import_lib
        /\ res[2].cls = "LinkLibrary"
        /\ res[2].path = Path(arg.name \o <<".", "l", "i", "b">>)
        /\ res[2].format = res[1].format
        /\ res[2].lang = res[1].lang
        /\ \A cls \in {"MsvcExecutableLinker", "MsvcStaticLinker"},
              l \in {"c", "c++"}, of \in ObjectFormats :
              can_link(MsvcTool(cls, l, of), res[2].format,
                       LangSet({res[2].lang}))
                = can_link(MsvcTool(cls, l, of), res[1].format,
                           LangSet({res[1].lang}))
        /\ runtime_file(res[2]) = Ref(res[1])
        /\ res[2].linktime_deps = <<Ref(res[1])>>

C17_Witness ==
    /\ arg.fn = "output_file"
    /\ res # None
    /\ arg.name = <<"l">>
    /\ arg.self.lang = "c++"
    /\ Len(res) = 3
    /\ res[2].lang = "c++"
    /\ res[2].linktime_deps = <<Ref(res[1])>>

\* the vendor family of a resolved builder
Family(builder) ==
    IF builder.packages = "MsvcPackageResolver" THEN "msvc" ELSE "cc"

\* C18: two resolutions whose probes print the same banner select the
\* same vendor family (compiler, linkers, package resolver) and the same
\* brand, whatever the command names are
C18_FamilyByBanner ==
    (arg.fn = "builder" /\ res # None /\ Len(res.items) = 2) =>
        /\ Family(res.items[1]) = Family(res.items[2])
        /\ res.items[1].compiler = res.items[2].compiler
        /\ res.items[1].linkers = res.items[2].linkers
        /\ (Family(res.items[1]) = "msvc" =>
                res.items[1].brand = res.items[2].brand)

\* what the code does instead: the family follows the command name alone,
\* MSVC-style exactly for a name ending in cl or cl.exe
C18_FamilyByName ==
    (arg.fn = "builder" /\ res # None) =>
        \A i \in 1..Len(res.items) :
            Family(res.items[i]) = "msvc" <=>
                \/ EndsWith(res.items[i].cmd, <<"c", "l">>)
                \/ EndsWith(res.items[i].cmd,
                            <<"c", "l", ".", "e", "x", "e">>)

\* C19: resolve() and boost_package() never go on to another lookup after
\* one has failed: no exception of a lookup is taken inside them, so each
\* failure reaches the caller as a PackageResolutionError naming the
\* missing item
C19_NoSilentRetry ==
    (arg.fn \in {"resolve", "boost_package"} /\ res # None) =>
        /\ res.caught = <<>>
        /\ res.err \in {"none", "PackageResolutionError"}

\* what does hold: the header and library searches themselves end in a
\* PackageResolutionError naming the item, and resolve() hands on the error
\* of the search it fell back to
C19_SearchSurfaces ==
    (arg.fn = "resolve" /\ res # None /\ res.err # "none") =>
        /\ res.err = "PackageResolutionError"
        /\ res.caught # <<>>
        /\ \/ /\ res.msg[1] = "unable to find header"
              /\ \E i \in 1..Len(listify(arg.headers)) :
                    /\ res.msg[2] = listify(arg.headers)[i]
                    /\ \A d \in {Str(<<"inc1">>), Str(<<"inc2">>)} :
                          os_path_join(d, res.msg[2]) \notin arg.fs
           \/ /\ res.msg[1] = "unable to find library"
              /\ os_path_join(Str(<<"lib">>),
                              Str(res.msg[2].s \o <<".lib">>)) \notin arg.fs

\* what the glob filter of a final_filter call answers
GlobResult ==
    filter_from_glob(arg.match_type, arg.match_names, arg.match_extra,
                     arg.name, arg.type)

\* C20: with include < not_now < exclude, a & b is the more restrictive of
\* a and b, a | b the less restrictive, only include is truthy, and
\* find_files answers with the more restrictive of the given filter and the
\* glob filter, so with include only when both include
C20_RestrictivenessOrder ==
    /\ (arg.fn = "find_result" /\ res # None) =>
          CASE arg.op = "and" ->
                 res.value = IF arg.a > arg.b THEN arg.a ELSE arg.b
            [] arg.op = "or" ->
                 res.value = IF arg.a < arg.b THEN arg.a ELSE arg.b
            [] arg.op = "bool" ->
                 res.value = (arg.a = FindResult.include)
    /\ (arg.fn = "final_filter" /\ res # None /\ arg.filter # <<>>) =>
          /\ res.value \in {arg.filter[1], GlobResult}
          /\ res.value >= arg.filter[1]
          /\ res.value >= GlobResult
          /\ res.value = FindResult.include <=>
                /\ arg.filter[1] = FindResult.include
                /\ GlobResult = FindResult.include

\* the part that holds: find_files takes the more restrictive of the two
\* filters' answers
C20_MoreRestrictiveFilter ==
    (arg.fn = "final_filter" /\ res # None /\ arg.filter # <<>>) =>
        /\ res.value \in {arg.filter[1], GlobResult}
        /\ res.value >= arg.filter[1]
        /\ res.value >= GlobResult
        /\ res.value = FindResult.include <=>
              /\ arg.filter[1] = FindResult.include
              /\ GlobResult = FindResult.include

\* what the operators do instead: bitwise arithmetic on 0, 1, 2, so that
\* include & b is include, not_now & exclude is include, not_now | exclude
\* is no member at all, and include alone is falsy
C20_Bitwise ==
    (arg.fn = "find_result" /\ res # None) =>
        /\ (arg.op = "and" /\ arg.a # arg.b) => res.value = FindResult.include
        /\ (arg.op = "or" /\ arg.a # arg.b) => res.value = arg.a + arg.b
        /\ arg.op = "bool" => (res.value <=> arg.a # FindResult.include)

----------------------------------------------------------------------------
(* find_files: the walk over the source tree *)

\* a directory tree: each directory's path mapped to what os.listdir gives
\* for it, in that order, every entry a file "f", a directory "d" or a
\* link to a directory "l"
Entry(name, kind) == [name |-> name, kind |-> kind]

\* posixpath.join(path, name)
posixpath_join(path, name) == path \o <<"/">> \o name

\* _listdir(path): the directories and the other entries below path as
\* (name, curpath) pairs; nothing for a path that cannot be listed
listdir(path, tree) ==
    IF path \in DOMAIN tree
    THEN [dirs |->
              [i \in 1..Len(SelectSeq(tree[path], LAMBDA e : e.kind # "f"))
                  |-> <<SelectSeq(tree[path], LAMBDA e : e.kind # "f")[i].name,
                        posixpath_join(path,
                            SelectSeq(tree[path],
                                      LAMBDA e : e.kind # "f")[i].name)>>],
          nondirs |->
              [i \in 1..Len(SelectSeq(tree[path], LAMBDA e : e.kind = "f"))
                  |-> <<SelectSeq(tree[path], LAMBDA e : e.kind = "f")[i].name,
                        posixpath_join(path,
                            SelectSeq(tree[path],
                                      LAMBDA e : e.kind = "f")[i].name)>>]]
    ELSE [dirs |-> <<>>, nondirs |-> <<>>]

\* os.path.islink(path)
islink(path, tree) ==
    \E p \in DOMAIN tree : \E i \in 1..Len(tree[p]) :
        tree[p][i].kind = "l" /\ posixpath_join(p, tree[p][i].name) = path

\* _walk_flat(top): the one triple (top, dirs, nondirs)
walk_flat(top, tree) ==
    <<[base |-> top, dirs |-> listdir(top, tree).dirs,
       nondirs |-> listdir(top, tree).nondirs]>>

\* _walk_recursive(top): top's triple, then those of its directories that
\* are no links, depth first
RECURSIVE walk_recursive(_, _)
RECURSIVE walk_dirs(_, _)
walk_dirs(dirs, tree) ==
    IF dirs = <<>> THEN <<>>
    ELSE (IF islink(Head(dirs)[2], tree) THEN <<>>
          ELSE walk_recursive(Head(dirs)[2], tree))
         \o walk_dirs(Tail(dirs), tree)

walk_recursive(top, tree) ==
    walk_flat(top, tree) \o walk_dirs(listdir(top, tree).dirs, tree)

\* the filters find_files is given: none, the default that lets every path
\* through, one that defers directories, one that excludes the name b
user_filter(filter, name, type) ==
    CASE filter = "all" -> FindResult.include
      [] filter = "files_now" ->
           IF type = "d" THEN FindResult.not_now ELSE FindResult.include
      [] filter = "no_b" ->
           IF name = <<"b">> THEN FindResult.exclude ELSE FindResult.include

\* the calls of do_filter in _find_files, in order: (name, path, type) for
\* the paths themselves, then for the directories and the files of each
\* triple of the walk
RECURSIVE walk_items(_)
walk_items(walked) ==
    IF walked = <<>> THEN <<>>
    ELSE [i \in 1..Len(Head(walked).dirs) |->
             <<Head(walked).dirs[i][1], Head(walked).dirs[i][2], "d">>]
         \o [i \in 1..Len(Head(walked).nondirs) |->
                <<Head(walked).nondirs[i][1], Head(walked).nondirs[i][2],
                  "f">>]
         \o walk_items(Tail(walked))

RECURSIVE walk_paths(_, _, _)
walk_paths(paths, flat, tree) ==
    IF paths = <<>> THEN <<>>
    ELSE (IF flat THEN walk_flat(Head(paths).s, tree)
          ELSE walk_recursive(Head(paths).s, tree))
         \o walk_paths(Tail(paths), flat, tree)

\* what final_filter answers for an item; call holds the arguments of
\* find_files, its filter being "" for a false one
item_filter(call, item) ==
    final_filter(IF call.filter # ""
                 THEN <<user_filter(call.filter, item[1], item[3])>>
                 ELSE <<>>,
                 filter_from_glob(call.type, call.name, call.extra, item[1],
                                  item[3]))

\* do_filter: the paths of the items the filter answers result for
RECURSIVE do_filter(_, _, _)
do_filter(call, items, result) ==
    IF items = <<>> THEN <<>>
    ELSE (IF item_filter(call, Head(items)) = result
          THEN <<Head(items)[2]>> ELSE <<>>)
         \o do_filter(call, Tail(items), result)

\* the items _find_files filters: the paths themselves as directories named
\* by their path, then what the walk lists
find_items(paths, walked) ==
    [i \in 1..Len(paths) |-> <<paths[i].s, paths[i].s, "d">>]
    \o walk_items(walked)

\* _find_files(paths, filter, flat), walked being what the walker yields for
\* the paths: results, extra_results, seen_dirs
find_files_walk(call, walked) ==
    [results |-> do_filter(call, find_items(listify(call.path), walked),
                           FindResult.include),
     extra_results |-> do_filter(call,
                                 find_items(listify(call.path), walked),
                                 FindResult.not_now),
     seen_dirs |-> [i \in 1..Len(walked) |-> walked[i].base]]

\* find_files(path, name, type, extra, filter, flat, cache) with find_dirs
\* holding dirs: the list returned, the files handed to generic_file, and
\* find_dirs afterwards
MutFindFilesAlwaysCaches(call, dirs, found) ==
    [results |-> found.results,
     files |-> found.results \o found.extra_results,
     find_dirs |-> dirs \cup {found.seen_dirs[i] : i \in 1..Len(found.seen_dirs)}]

find_files(call, dirs, found) ==
    [results |-> found.results,
     files |-> found.results \o found.extra_results,
     find_dirs |-> IF call.cache
                   THEN dirs \cup {found.seen_dirs[i] :
                                       i \in 1..Len(found.seen_dirs)}
                   ELSE dirs]

\* source trees: a directory with a file and a subdirectory of two files; the
\* same with a link to the subdirectory beside it; one file alone
TreeDir ==
    (<<".">> :> <<Entry(<<"d">>, "d"), Entry(<<"a">>, "f")>>)
    @@ (<<".", "/", "d">> :> <<Entry(<<"b">>, "f"), Entry(<<"a", "b">>, "f")>>)

TreeLink ==
    (<<".">> :> <<Entry(<<"a">>, "f"), Entry(<<"b">>, "l"),
                  Entry(<<"d">>, "d")>>)
    @@ (<<".", "/", "d">> :> <<Entry(<<"b">>, "d")>>)
    @@ (<<".", "/", "b">> :> <<Entry(<<"a">>, "f")>>)
    @@ (<<".", "/", "d", "/", "b">> :> <<Entry(<<"a", "b">>, "f")>>)

TreeFile == <<".">> :> <<Entry(<<"b">>, "f")>>

Trees == {TreeDir, TreeLink, TreeFile}

FindFilesArgs ==
    {[fn |-> "find_files", path |-> p, name |-> n, type |-> t, extra |-> e,
      filter |-> f, flat |-> fl, cache |-> c, tree |-> tr] :
        p \in {Str(<<".">>), List(<<Str(<<".", "/", "d">>), Str(<<"x">>)>>)},
        n \in FindPatterns, t \in {"*", "f", "d"},
        e \in {None, Str(<<"*">>), Str(<<"?", "b">>)},
        f \in {"", "all", "files_now", "no_b"},
        fl \in BOOLEAN, c \in BOOLEAN, tr \in Trees}

\* find_dirs before the call: nothing, or a directory of an earlier call
FindInit ==
    /\ Is(Makefile(FALSE))
    /\ find_dirs \in {{}, {<<"s">>}, {<<".">>}}
    /\ depfile = None
    /\ stream = <<>>
    /\ last = NoCall
    /\ family = "posix"
    /\ res = None
    /\ arg \in FindFilesArgs

DoFindFilesCall ==
    /\ arg.fn = "find_files"
    /\ res = None
    /\ res' = [k |-> "found",
               results |-> find_files(arg, find_dirs, find_files_walk(arg, walk_paths(listify(arg.path), arg.flat, arg.tree))).results,
               files |-> find_files(arg, find_dirs, find_files_walk(arg, walk_paths(listify(arg.path), arg.flat, arg.tree))).files,
               before |-> find_dirs]
    /\ find_dirs' = find_files(arg, find_dirs, find_files_walk(arg, walk_paths(listify(arg.path), arg.flat, arg.tree))).find_dirs
    /\ UNCHANGED <<family, arg, depfile, stream, last>>
    /\ UNCHANGED <<_var_table, _global_variables, _target_variables, _defines,
                   _rules, _targets, _includes, _gnu, history>>

FindNext == DoFindFilesCall

SpecFind == FindInit /\ [][FindNext]_vars

\* the directories the walk of a call visits
Visited ==
    {walk_paths(listify(arg.path), arg.flat, arg.tree)[i].base :
        i \in 1..Len(walk_paths(listify(arg.path), arg.flat, arg.tree))}

\* the paths the call's filter answers result for, in the order of the walk
Answered(result) ==
    do_filter(arg, find_items(listify(arg.path),
                              walk_paths(listify(arg.path), arg.flat,
                                         arg.tree)),
              result)

\* C21: find_files with cache false leaves find_dirs as it was and with
\* cache true adds every directory the walk visited; either way it returns
\* exactly the paths the filter includes, while the paths answered not_now
\* are handed to generic_file but not returned
C21_CacheFrame ==
    (arg.fn = "find_files" /\ res # None) =>
        /\ ~arg.cache => find_dirs = res.before
        /\ arg.cache => find_dirs = res.before \cup Visited
        /\ res.results = Answered(FindResult.include)
        /\ res.results
             = find_files([arg EXCEPT !.cache = ~arg.cache], res.before,
                          find_files_walk(
                              [arg EXCEPT !.cache = ~arg.cache],
                              walk_paths(listify(arg.path), arg.flat,
                                         arg.tree))).results
        /\ res.files = res.results \o Answered(FindResult.not_now)
        /\ \A i \in 1..Len(Answered(FindResult.not_now)) :
              \A j \in 1..Len(res.results) :
                  res.results[j] # Answered(FindResult.not_now)[i]

C21_Witness ==
    /\ arg.fn = "find_files"
    /\ res # None
    /\ ~arg.cache
    /\ ~arg.flat
    /\ arg.tree = TreeDir
    /\ res.before = {<<"s">>}
    /\ find_dirs = {<<"s">>}
    /\ Cardinality(Visited) = 2
    /\ Len(res.results) >= 1
    /\ Len(res.files) > Len(res.results)

----------------------------------------------------------------------------
(* escape_str, character by character *)

\* the characters a context escapes with a backslash, and "~" where it
\* opens the text
Escaped(d, i, syntax, fam) ==
    /\ syntax \in {"target", "dependency"}
    /\ \/ d[i] \in {"?", "*", "[", "]", " ", TAB, "#", "%"}
       \/ d[i] = ":" /\ fam # "windows"
       \/ d[i] = "|" /\ syntax = "dependency"
       \/ d[i] = "~" /\ i = 1

\* what the i-th character of d becomes: a backslash of a run that ends at
\* an escaped character is doubled, an escaped character gets one backslash,
\* a comma of a function argument becomes "$,"
Piece(d, i, syntax, fam) ==
    IF d[i] = BS
    THEN IF /\ i + RunFrom(d, i) <= Len(d)
            /\ Escaped(d, i + RunFrom(d, i), syntax, fam)
         THEN <<BS, BS>> ELSE <<BS>>
    ELSE IF Escaped(d, i, syntax, fam) THEN <<BS, d[i]>>
    ELSE IF syntax = "function" /\ d[i] = "," THEN <<"$", ",">>
    ELSE <<d[i]>>

\* C22: after "$" doubling escape_str prefixes one backslash to each of
\* ? * [ ] whitespace # % (and : off Windows) in target and dependency
\* context, to | in dependency context only and to ~ only as the first
\* character, doubling the run of backslashes right before each; in function
\* context only "," changes, to "$,"; in shell and clean context nothing
\* else changes
C22_EscapedExactly ==
    (arg.fn = "escape_str" /\ res # None) =>
        /\ res.escaped.err = "none"
        /\ res.escaped.out
             = Concat([i \in 1..Len(DoubleDollar(arg.text)) |->
                          Piece(DoubleDollar(arg.text), i, arg.syntax,
                                family)])
        /\ arg.syntax \in {"shell", "clean"} =>
              res.escaped.out = DoubleDollar(arg.text)

C22_Witness ==
    /\ arg.fn = "escape_str"
    /\ res # None
    /\ arg.syntax = "dependency"
    /\ arg.text = <<BS, BS, "|">>
    /\ res.escaped.out = <<BS, BS, BS, BS, BS, "|">>

----------------------------------------------------------------------------
(* Paths in shell-like contexts *)

\* a part of the path was escaped or quoted: the reference to the root's
\* variable is a literal, and the text below the root is quoted if the shell
\* would read any of its characters specially
PathFlagged(p) ==
    \/ p.root = "srcdir"
    \/ \E i \in 1..Len(p.suffix) : p.suffix[i] \in ShellBadChars

\* the contexts whose text a shell reads
ShellLike == arg.syntax \in {"shell", "function"}

\* C23: a path written in shell or function context is wrapped in shell
\* quotes once if a part of it was escaped or quoted and not at all
\* otherwise, its parts being quoted with the inner-quote function, so that
\* the only other quotes of the output are the escaped quotes of the path
\* itself; in target, dependency and clean context it is never wrapped
C23_PathWrappedOnce ==
    (Written /\ arg.thing.k = "path" /\ res.err = "none") =>
        /\ ShellLike => (res.escaped <=> PathFlagged(arg.thing))
        /\ (ShellLike /\ res.escaped) =>
              /\ Len(res.out) >= 2
              /\ res.out = wrap_quotes(SubSeq(res.out, 2, Len(res.out) - 1))
              /\ Count(res.out, "'") = 2 + 3 * Count(arg.thing.suffix, "'")
        /\ (ShellLike /\ ~res.escaped) => Count(res.out, "'") = 0
        /\ ~ShellLike =>
              Count(res.out, "'") = Count(arg.thing.suffix, "'")

C23_Witness ==
    /\ Written
    /\ arg.thing = PathValue("srcdir", <<"'", "a">>)
    /\ arg.syntax = "function"
    /\ res.err = "none"
    /\ res.escaped
    /\ res.out = <<"'", "$", "(", "s", "r", "c", "d", "i", "r", ")", "/",
                   "'", BS, "'", "'", "a", "'">>

----------------------------------------------------------------------------
(* Constructing a builder *)

\* the classes of the two vendor families
MsvcClasses ==
    {"MsvcCompiler", "MsvcExecutableLinker", "MsvcSharedLibraryLinker",
     "MsvcStaticLinker", "MsvcPackageResolver"}

CcClasses ==
    {"CcCompiler", "CcExecutableLinker", "CcSharedLibraryLinker", "ArLinker",
     "CcPackageResolver"}

\* the classes a builder is made of
BuilderClasses(b) ==
    {b.compiler, b.packages} \cup {b.linkers[mode] : mode \in DOMAIN b.linkers}

\* C24: constructing the builder of a language looks the compiler command
\* up once and nothing twice; if that lookup, or a linker lookup of the MSVC
\* branch, fails, the construction raises and there is no builder; if all
\* succeed the builder has a compiler, a package resolver and a linker for
\* exactly executable, shared_library and static_library, all of one family
C24_AllOrNothing ==
    (arg.fn = "construct" /\ res # None) =>
        /\ Len(res.lookups) >= 1
        /\ \A i, j \in 1..Len(res.lookups) :
              (i # j /\ res.lookups[i] = res.lookups[j]) =>
                  res.lookups[i] \in arg.installed
        /\ \A i \in 1..(Len(res.lookups) - 1) :
              res.lookups[i] \in arg.installed
        /\ (\E i \in 1..Len(res.lookups) : res.lookups[i] \notin arg.installed)
              <=> res.err # "none"
        /\ (res.err # "none") <=> (res.builder = None)
        /\ res.err = "none" =>
              /\ res.builder.cmd = res.lookups[1]
              /\ DOMAIN res.builder.linkers = Modes
              /\ \/ BuilderClasses(res.builder) = MsvcClasses
                 \/ BuilderClasses(res.builder) = CcClasses
              /\ BuilderClasses(res.builder) = MsvcClasses
                    <=> Len(res.lookups) = 3

C24_Witness ==
    /\ arg.fn = "construct"
    /\ res # None
    /\ res.err = "IOError"
    /\ res.builder = None
    /\ res.lookups = <<<<"d", "/", "c", "l">>, <<"x">>>>

----------------------------------------------------------------------------
(* Variable: the name it keeps and the reference it renders *)

\* the characters Variable.__init__ replaces
Replaced == {" ", TAB, NL, ":", "#", "="}

\* a Variable was made from arg.text and written
VariableMade == arg.fn = "Variable" /\ res # None

\* the reference to a name: $X for one character, $(NAME) otherwise
Reference(name) ==
    IF Len(name) = 1 THEN <<"$", name[1]>>
    ELSE <<"$", "(">> \o name \o <<")">>

\* C25: the name of Variable(name) is the name given with every white space,
\* ":", "#" and "=" replaced by "_" and every other character kept; in
\* every context it is written, without error, as $X for a name of one
\* character and as $(NAME) otherwise, with no character escaped, and between
\* single quotes when the variable is quoted
C25_VariableReference ==
    VariableMade =>
        LET name == res.variable.name
            ref == Reference(name)
        IN  /\ Len(name) = Len(arg.text)
            /\ \A i \in 1..Len(name) :
                  name[i] = IF arg.text[i] \in Replaced THEN "_"
                            ELSE arg.text[i]
            /\ res.variable.quoted = arg.quoted
            /\ res.written.err = "none"
            /\ res.written.out = IF arg.quoted THEN <<"'">> \o ref \o <<"'">>
                                 ELSE ref

\* a quoted variable of one replaced character and one of a longer name
\* holding a "$", written in a shell context
C25_Witness ==
    /\ VariableMade
    /\ arg.syntax = "shell"
    /\ arg.quoted
    /\ arg.text = <<":", "$">>
    /\ res.written.out = <<"'", "$", "(", "_", "$", ")", "'">>

----------------------------------------------------------------------------
(* rule() with several targets, one of them claimed *)

\* the rendered names of the targets listed before the k-th
ListedBefore(targets, k) ==
    {_target_str(targets[j], family).out : j \in 1..(k - 1)}

\* the k-th target is the first that is claimed, by an earlier call or by a
\* target listed before it, and every target up to it is rendered
ClaimedAt(targets, k) ==
    /\ k \in 1..Len(targets)
    /\ \A j \in 1..k : _target_str(targets[j], family).err = "none"
    /\ \A j \in 1..(k - 1) :
          _target_str(targets[j], family).out
              \notin _targets \cup ListedBefore(targets, j)
    /\ _target_str(targets[k], family).out
          \in _targets \cup ListedBefore(targets, k)

\* the rendered targets of the stored rules
BuiltTargets ==
    {RenderedTargets(StoredTargets(_rules), family)[i] :
        i \in 1..Len(StoredTargets(_rules))}

\* C26: a rule() whose k-th target is already claimed raises ValueError and
\* stores no rule, and leaves the targets listed before the k-th in the
\* claimed set next to those that were there; whatever the calls, the
\* claimed set holds the rendered targets of the stored rules
C26_NoRollback ==
    /\ [](BuiltTargets \subseteq _targets)
    /\ [][\A k \in 1..2 :
            (last'.op = "rule" /\ ClaimedAt(listify(last'.target), k)) =>
                /\ last'.err = "ValueError"
                /\ _rules' = _rules
                /\ _targets'
                     = _targets \cup ListedBefore(listify(last'.target), k)]_vars

\* rule(["v", "t"]) after rule("t"): "v" is claimed and no stored rule
\* builds it
C26_Witness ==
    /\ last.op = "rule"
    /\ last.err = "ValueError"
    /\ last.target = List(<<Str(<<"v">>), Str(<<"t">>)>>)
    /\ Len(_rules) = 1
    /\ BuiltTargets = {<<"t">>}
    /\ _targets = {<<"t">>, <<"v">>}

----------------------------------------------------------------------------
(* Two declarations, one after the other *)

\* names that sanitize to a_b, and one that does not
IdentityNames ==
    {<<"a", " ", "b">>, <<"a", ":", "b">>, <<"a", "_", "b">>, <<"a", "b">>}

\* what a contributor passes as a name: a str, var(str) or qvar(str)
IdentityArgs ==
    {Str(t) : t \in IdentityNames}
    \cup {var(Str(t), q) : t \in IdentityNames, q \in BOOLEAN}

DeclareKinds == {"variable", "target_variable", "define"}

IdentityInit ==
    /\ Idle
    /\ family = "posix"
    /\ res = None
    /\ arg \in {[fn |-> "declare", first |-> a, second |-> b, kind |-> kind,
                  again |-> again, exist_ok |-> e] :
                  a \in IdentityArgs, b \in IdentityArgs,
                  kind \in DeclareKinds, again \in DeclareKinds,
                  e \in BOOLEAN}

\* variable(), target_variable() or define() of a name
declare(m, kind, name, value, exist_ok) ==
    CASE kind = "variable" -> variable(m, name, value, "other", exist_ok)
      [] kind = "target_variable" -> target_variable(m, name, value, exist_ok)
      [] OTHER -> define(m, name, value, exist_ok)

\* the first declaration, on the empty Makefile
DoDeclare ==
    /\ arg.fn = "declare"
    /\ last.op = "none"
    /\ Called([op |-> "declare", name |-> arg.first, exist_ok |-> FALSE,
               err |-> "none", ret |-> None],
              declare(Self, arg.kind, arg.first, ValX, FALSE))

\* the second declaration
DoDeclareAgain ==
    /\ arg.fn = "declare"
    /\ last.op = "declare"
    /\ Called([op |-> "declare again", name |-> arg.second,
               exist_ok |-> arg.exist_ok, err |-> "none", ret |-> None],
              declare(Self, arg.again, arg.second, ValY, arg.exist_ok))

IdentityNext == DoDeclare \/ DoDeclareAgain

SpecIdentity == IdentityInit /\ [][IdentityNext]_vars

\* the name a contributor's argument stands for, with white space, ":",
\* "#" and "=" replaced
Identifier(a) ==
    LET t == IF a.k = "str" THEN a.s ELSE a.name
    IN  [i \in 1..Len(t) |-> IF t[i] \in Replaced THEN "_" ELSE t[i]]

\* C27: a second declaration is refused, without exist_ok, exactly when its
\* name and the first one's sanitize to the same identifier, whether either
\* was passed quoted or not and whatever the kinds of the two declarations;
\* a refused declaration stores nothing
C27_IdentityByName ==
    [][last'.op = "declare again" =>
         IF Identifier(arg.first) = Identifier(arg.second)
         THEN /\ last'.err = (IF arg.exist_ok THEN "none" ELSE "ValueError")
              /\ Buckets' = Buckets
              /\ _var_table' = _var_table
         ELSE /\ last'.err = "none"
              /\ Cardinality(_var_table') = 2
              /\ Len(AllEntryNames') = 2]_vars

\* qvar("a_b") was refused after variable("a b")
C27_Witness ==
    /\ last.op = "declare again"
    /\ last.err = "ValueError"
    /\ arg.first = Str(<<"a", " ", "b">>)
    /\ arg.second = Variable(<<"a", "_", "b">>, TRUE)
    /\ Len(AllEntryNames) = 1

----------------------------------------------------------------------------
(* cmd_var for a name that is taken *)

\* some declaration holds the name cmd_var gives the tool
ToolNameTaken == \E n \in _var_table : n.name = ToolVar.name

\* the line of the file that binds the tool's variable to x, and the start
\* of the one that binds it to the tool's command
BoundToX == ToolVar.name \o <<" := ", "x", NL>>
BoundToCommand == ToolVar.name \o <<" := ", "g", "c", "c">>

\* C28: cmd_var(tool) for a name that some declaration holds, whatever its
\* kind and section, returns the variable of that name without an error and
\* stores nothing; a write() that follows, the name having been declared
\* first by variable(name, "x"), emits the binding to "x" and none to the
\* tool's command
C28_NameTakenFirst ==
    /\ [][(last'.op = "cmd_var" /\ ToolNameTaken) =>
            /\ last'.err = "none"
            /\ last'.ret = ToolVar
            /\ Buckets' = Buckets
            /\ _var_table' = _var_table
            /\ history' = history]_vars
    /\ [][(/\ last.op = "cmd_var"
           /\ last'.op = "write"
           /\ history # <<>>
           /\ history[1].op = "variable"
           /\ history[1].name = ToolVar
           /\ history[1].value = ValX) =>
            /\ last'.err = "none" => Within(BoundToX, stream')
            /\ ~Within(BoundToCommand, stream')]_vars

\* cmd_var after variable("CC", "x") in the flags section: the command
\* section is empty
C28_Witness ==
    /\ last.op = "cmd_var"
    /\ last.err = "none"
    /\ Len(history) = 1
    /\ history[1].op = "variable"
    /\ history[1].section = "flags"
    /\ history[1].value = ValX
    /\ _global_variables["flags"] = <<<<ToolVar, ValX>>>>
    /\ _global_variables["command"] = <<>>

\* a file was written that binds the tool's variable to its command
C28_CommandEmitted == last.op = "write" /\ Within(BoundToCommand, stream)

\* a file was written after cmd_var found the name bound to x
C28_EarlierValueEmitted ==
    /\ last.op = "write"
    /\ last.err = "none"
    /\ Within(BoundToX, stream)
    /\ history[1].name = ToolVar

----------------------------------------------------------------------------
(* num_outputs, output_file and the command line *)

\* a command was rendered for the files output_file returned
Rendered == arg.fn = "render" /\ res # None

\* the outputs the command line names: some argument ends with their path
Consumed ==
    {i \in 1..Len(res.outputs) :
        \E j \in 1..Len(res.command) :
            EndsWith(res.command[j], res.outputs[i])}

\* C29 as it is stated: output_file returns num_outputs files, and the
\* command line names exactly those
C29_OutputsAreNumOutputs ==
    Rendered =>
        /\ Len(res.outputs) = num_outputs(arg.self.cls)
        /\ Consumed = 1..num_outputs(arg.self.cls)

\* C29, amended: output_file returns at least num_outputs files and the
\* command line names exactly the first num_outputs of them: one file for
\* the compiler and the executable linker, the precompiled header and its
\* object file for the PCH compiler, and for the shared-library linker the
\* DLL and the import library out of three files, the third being the
\* export file, which the command line does not name
C29_CommandNamesFirstOutputs ==
    Rendered =>
        /\ Len(res.outputs) >= num_outputs(arg.self.cls)
        /\ Consumed = 1..num_outputs(arg.self.cls)
        /\ Len(res.outputs) =
              (CASE arg.self.cls = "MsvcPchCompiler" -> 2
                 [] arg.self.cls = "MsvcSharedLibraryLinker" -> 3
                 [] OTHER -> 1)
        /\ arg.self.cls = "MsvcSharedLibraryLinker" =>
              res.outputs[3] = arg.name \o <<".", "e", "x", "p">>

\* the shared-library linker's command for "l": three files returned, two
\* named
C29_Witness ==
    /\ Rendered
    /\ arg.self.cls = "MsvcSharedLibraryLinker"
    /\ arg.name = <<"l">>
    /\ Len(res.outputs) = 3
    /\ Consumed = {1, 2}
    /\ res.command[Len(res.command)]
         = <<"/IMPLIB:", "l", ".", "l", "i", "b">>

----------------------------------------------------------------------------
(* write_depfile, for make and for ninja *)

\* the directories a project scans: a plain one, one with a blank, one
\* with a "$" and a "#"
SeenDirs == {<<"s">>, <<"a", " ", "b">>, <<"$", "#">>}

NinjaName == <<"b", "u", "i", "l", "d", ".", "n", "i", "n", "j", "a">>

DepfileArgs ==
    {[fn |-> "write_depfile", output |-> o, seen_dirs |-> dirs,
      makeify |-> mk] :
        o \in {MakefileName, NinjaName},
        dirs \in UNION {Orders(S) : S \in SUBSET SeenDirs},
        mk \in BOOLEAN}

DepfileInit ==
    /\ Idle
    /\ family \in {"posix", "windows"}
    /\ res = None
    /\ arg \in DepfileArgs

\* write_depfile(path, output, seen_dirs, makeify)
DoWriteDepfile ==
    /\ arg.fn = "write_depfile"
    /\ res = None
    /\ res' = write_depfile(arg.output, arg.seen_dirs, arg.makeify, family)
               @@ [k |-> "depfile"]
    /\ UNCHANGED <<family, arg>>
    /\ UNCHANGED mfvars

SpecDepfile == DepfileInit /\ [][DoWriteDepfile]_vars

\* the lines of a text: what stands before each newline
RECURSIVE Lines(_, _)
Lines(text, line) ==
    IF text = <<>> THEN (IF line = <<>> THEN <<>> ELSE <<line>>)
    ELSE IF Head(text) = NL THEN <<line>> \o Lines(Tail(text), <<>>)
    ELSE Lines(Tail(text), Append(line, Head(text)))

\* a name as a context of the file holds it
Held(name, syntax) == escape_str(name, syntax, family).out

\* the dependencies of the first line: each scanned directory after a blank
RECURSIVE Dependencies(_)
Dependencies(dirs) ==
    IF dirs = <<>> THEN <<>>
    ELSE <<" ">> \o Held(abspath(Head(dirs)), "dependency")
         \o Dependencies(Tail(dirs))

\* a dependency file was written without an error
DepfileWritten == arg.fn = "write_depfile" /\ res # None

\* C30: the dependency file starts with one rule, the build file as its
\* target and the absolute paths of the scanned directories as its
\* dependencies, in the order of the iteration; written for make, it goes
\* on with one empty rule for each of these directories, in the same order,
\* and holds nothing else; written otherwise, the first rule is all of it
C30_DepfileRules ==
    DepfileWritten =>
        /\ res.err = "none"
        /\ Len(Lines(res.out, <<>>))
             = IF arg.makeify THEN 1 + Len(arg.seen_dirs) ELSE 1
        /\ Lines(res.out, <<>>)[1]
             = Held(arg.output, "target") \o <<":">>
               \o Dependencies(arg.seen_dirs)
        /\ arg.makeify =>
              \A i \in 1..Len(arg.seen_dirs) :
                  Lines(res.out, <<>>)[1 + i]
                    = Held(abspath(arg.seen_dirs[i]), "target") \o <<":">>
        /\ res.out # <<>> /\ res.out[Len(res.out)] = NL

\* the file written for make after two directories were scanned, the one
\* with the blank first
C30_Witness ==
    /\ DepfileWritten
    /\ arg.makeify
    /\ arg.output = MakefileName
    /\ arg.seen_dirs = <<<<"a", " ", "b">>, <<"s">>>>
    /\ family = "posix"
    /\ res.out = MakefileName
                 \o <<":", " ", "/", "w", "/", "a", BS, " ", "b",
                      " ", "/", "w", "/", "s", NL,
                      "/", "w", "/", "a", BS, " ", "b", ":", NL,
                      "/", "w", "/", "s", ":", NL>>

====
